---- MODULE Spec2Model ----
(***************************************************************************)
(* Token lifecycle and abuse-control engine of the auth service:           *)
(*   app/services/rate_limiter.py       sliding-window rate limiter (Redis) *)
(*   app/services/auth_service.py       login / refresh / logout            *)
(*   app/repositories/refresh_token_repository.py   refresh-token rows      *)
(*   app/utils/auth.py                  JWTManager (issue / validate / hash)*)
(*                                                                         *)
(* Time is an integer clock `now` (seconds since the epoch, UTC).  Every    *)
(* call to the database or to Redis is one atomic step of the request that *)
(* makes it; requests are handled by the workers in Procs and interleave   *)
(* at these steps.                                                         *)
(***************************************************************************)
EXTENDS Integers, FiniteSets, Sequences, TLC

(***************************************************************************)
(* Bounds of the model and scaled configuration values.                    *)
(***************************************************************************)
\* the clock runs from 0 to MaxTime
MaxTime == 3
\* number of create_tokens / rotation mintings (each mints one token pair)
MaxPairs == 3
\* record_attempt calls made while the limiter is enabled
MaxCalls == 4

\* login.rate_limits.* (the defaults are 20/15min, 5/15min, 10/60min)
PerIpRequests == 3
PerIpWindow == 3
PerIdentifierAttempts == 2
PerIdentifierWindow == 2
PerAccountAttempts == 2
PerAccountWindow == 3
\* jwt.access_token_ttl_minutes, jwt.refresh_token_ttl_days, on the model's clock
AccessTokenTtl == 1
RefreshTokenTtl == 2
\* login.session.max_sessions_per_user (default 10)
MaxSessions == 2

\* Python's None
None == "None"

Procs == {"w1", "w2"}
Ips == {"10.0.0.1"}
UserIds == {"u1", "u2"}
Identifiers == {"alice", "bob", "mallory"}

(***************************************************************************)
(* Redis sorted sets, as the limiter uses them: a sorted set is a set of   *)
(* entries with unique members; a missing key is the empty set and has no  *)
(* expiry.                                                                  *)
(***************************************************************************)
NoExpiry == -1

Keys ==
    {<<"ip", i>> : i \in Ips} \cup {<<"identifier", x>> : x \in Identifiers}
        \cup {<<"account", u>> : u \in UserIds}

EmptyKey == [z |-> {}, exp |-> NoExpiry]

VARIABLES
    now,        \* the clock, int(time.time())
    redis,      \* key -> [z: sorted set, exp: expiry deadline of the key]
    enabled,    \* RateLimiter.enabled
    calls,      \* log: key -> second -> number of record_attempt calls
    users,      \* the users table
    refresh_tokens, \* the refresh_tokens table
    minted,     \* number of token pairs minted so far (source of the jti values)
    issued,     \* the tokens handed out to clients so far
    procs,      \* worker -> the request it is handling and where it stands
    rotated,    \* log: refresh tokens for which refresh_tokens has returned a pair
    loggedOut,  \* log: stored tokens for which logout_user has returned
    naive,      \* the database hands DateTime columns back without tzinfo
    down        \* the services that are failing: calls to them raise

limiterVars == <<redis, enabled, calls>>
storeVars == <<users, refresh_tokens, minted, issued>>
procVars == <<procs, rotated, loggedOut>>
vars == <<now, redis, enabled, calls, users, refresh_tokens, minted, issued,
          procs, rotated, loggedOut, naive, down>>

\* a ZADD whose members are made distinct, so that every call adds an entry
ZAddEveryCall(z, member, score) ==
    z \cup {[member |-> IF \E e \in z : e.member = member
                        THEN member + 1000 * Cardinality(z) ELSE member,
             score |-> score]}

\* ZADD key {member: score}: one entry per member
ZAdd(z, member, score) ==
    {e \in z : e.member # member} \cup {[member |-> member, score |-> score]}

\* ZREMRANGEBYSCORE key lo hi: both ends inclusive
ZRemRangeByScore(z, lo, hi) == {e \in z : ~(lo <= e.score /\ e.score <= hi)}

\* ZCARD key
ZCard(z) == Cardinality(z)

\* Redis drops a sorted set that became empty, and its expiry with it
Normalise(k) == IF k.z = {} THEN EmptyKey ELSE k

(***************************************************************************)
(* RateLimiter (app/services/rate_limiter.py).  The operators take the     *)
(* Redis store and return the store the call leaves behind.                *)
(***************************************************************************)
IpKey(ip) == <<"ip", ip>>
IdentifierKey(identifier) == <<"identifier", identifier>>
AccountKey(user_id) == <<"account", user_id>>

\* _check_sliding_window: purge, count, compare
CheckSlidingWindow(store, key, current_time, max_requests, window_size) ==
    LET window_start == current_time - window_size
        purged == [store EXCEPT ![key] =
                      Normalise([@ EXCEPT !.z = ZRemRangeByScore(@, 0, window_start)])]
        current_count == ZCard(purged[key].z)
    IN  [store |-> purged, count |-> current_count,
         raised |-> current_count >= max_requests]

\* _record_sliding_window without its zremrangebyscore
RecordSlidingWindowNoPurge(store, key, current_time, window_size) ==
    [store EXCEPT ![key] =
        [z |-> ZAdd(@.z, current_time, current_time),
         exp |-> now + window_size]]

\* _record_sliding_window: zadd, expire, purge
RecordSlidingWindow(store, key, current_time, window_size) ==
    LET added == [store[key] EXCEPT !.z = ZAdd(@, current_time, current_time)]
        expiring == [added EXCEPT !.exp = now + window_size]
        window_start == current_time - window_size
    IN  [store EXCEPT ![key] =
            Normalise([expiring EXCEPT !.z = ZRemRangeByScore(@, 0, window_start)])]

\* check_rate_limit that checks the identifier before the ip
CheckRateLimitIdentifierFirst(store, ip_address, identifier, user_id) ==
    IF ~enabled THEN [store |-> store, error |-> None]
    ELSE
    LET r1 == CheckSlidingWindow(store, IdentifierKey(identifier), now,
                                 PerIdentifierAttempts, PerIdentifierWindow)
        s1 == IF identifier # None THEN r1.store ELSE store
        r2 == CheckSlidingWindow(s1, IpKey(ip_address), now, PerIpRequests,
                                 PerIpWindow)
        r3 == CheckSlidingWindow(r2.store, AccountKey(user_id), now,
                                 PerAccountAttempts, PerAccountWindow)
    IN  IF identifier # None /\ r1.raised
        THEN [store |-> r1.store, error |-> "identifier"]
        ELSE IF r2.raised THEN [store |-> r2.store, error |-> "ip"]
        ELSE IF user_id # None /\ r3.raised
             THEN [store |-> r3.store, error |-> "account"]
        ELSE [store |-> IF user_id # None THEN r3.store ELSE r2.store,
              error |-> None]

\* check_rate_limit: ip, then identifier, then account; the first scope over
\* its limit raises RateLimitError and the later scopes are not touched.
\* error is the scope whose message is raised, or None.
CheckRateLimit(store, ip_address, identifier, user_id) ==
    IF ~enabled THEN [store |-> store, error |-> None]
    ELSE
    LET current_time == now
        r1 == CheckSlidingWindow(store, IpKey(ip_address), current_time,
                                 PerIpRequests, PerIpWindow)
        r2 == CheckSlidingWindow(r1.store, IdentifierKey(identifier), current_time,
                                 PerIdentifierAttempts, PerIdentifierWindow)
        s2 == IF identifier # None THEN r2.store ELSE r1.store
        r3 == CheckSlidingWindow(s2, AccountKey(user_id), current_time,
                                 PerAccountAttempts, PerAccountWindow)
    IN  IF r1.raised THEN [store |-> r1.store, error |-> "ip"]
        ELSE IF identifier # None /\ r2.raised
             THEN [store |-> r2.store, error |-> "identifier"]
        ELSE IF user_id # None /\ r3.raised
             THEN [store |-> r3.store, error |-> "account"]
        ELSE [store |-> IF user_id # None THEN r3.store ELSE s2, error |-> None]

\* record_attempt without its `if not self.enabled: return`
RecordAttemptUngated(store, ip_address, identifier, user_id) ==
    LET s1 == RecordSlidingWindow(store, IpKey(ip_address), now, PerIpWindow)
        s2 == IF identifier # None
              THEN RecordSlidingWindow(s1, IdentifierKey(identifier), now,
                                       PerIdentifierWindow)
              ELSE s1
    IN  IF user_id # None
        THEN RecordSlidingWindow(s2, AccountKey(user_id), now, PerAccountWindow)
        ELSE s2

\* record_attempt: one entry at the current second under every scope given
RecordAttempt(store, ip_address, identifier, user_id) ==
    IF ~enabled THEN store
    ELSE
    LET current_time == now
        s1 == RecordSlidingWindow(store, IpKey(ip_address), current_time, PerIpWindow)
        s2 == IF identifier # None
              THEN RecordSlidingWindow(s1, IdentifierKey(identifier), current_time,
                                       PerIdentifierWindow)
              ELSE s1
    IN  IF user_id # None
        THEN RecordSlidingWindow(s2, AccountKey(user_id), current_time,
                                 PerAccountWindow)
        ELSE s2

\* clear_user_rate_limits deleting by the pattern account:*
ClearEveryAccount(store, user_id) ==
    [k \in Keys |-> IF k[1] = "account" THEN EmptyKey ELSE store[k]]

\* clear_user_rate_limits: DEL account:{user_id}
ClearUserRateLimits(store, user_id) ==
    [store EXCEPT ![AccountKey(user_id)] = EmptyKey]

Max(a, b) == IF a >= b THEN a ELSE b

\* get_remaining_attempts: purge, count, max(0, max_requests - count)
GetRemainingAttempts(store, key_type, identifier) ==
    IF ~enabled THEN [store |-> store, value |-> 999]
    ELSE IF key_type \notin {"ip", "identifier", "account"}
    THEN [store |-> store, value |-> 0]
    ELSE
    LET key == <<key_type, identifier>>
        window_size == CASE key_type = "ip" -> PerIpWindow
                         [] key_type = "identifier" -> PerIdentifierWindow
                         [] OTHER -> PerAccountWindow
        max_requests == CASE key_type = "ip" -> PerIpRequests
                          [] key_type = "identifier" -> PerIdentifierAttempts
                          [] OTHER -> PerAccountAttempts
        r == CheckSlidingWindow(store, key, now, max_requests, window_size)
    IN  [store |-> r.store, value |-> Max(0, max_requests - ZCard(r.store[key].z))]

(***************************************************************************)
(* JWTManager (app/utils/auth.py).  A token is the record of its claims,   *)
(* its header's kid and the private key that signed it; wf says whether    *)
(* the string parses as a JWT at all.                                      *)
(***************************************************************************)
Issuer == "notepot_auth-service"
Audience == "notepot-services"
\* a key id made from the time of the call that needs it
KeyIdAtCall ==
    CASE now = 0 -> "auth-service-key-0"
      [] now = 1 -> "auth-service-key-1"
      [] OTHER -> "auth-service-key-2"

\* self.key_id: jwt.key_id, or "auth-service-key-" and the time at which the
\* manager was constructed
KeyId == "auth-service-key-0"
PrivateKey == "service-key"

Garbage ==
    [wf |-> FALSE, type |-> None, sub |-> None, iss |-> None, aud |-> None,
     exp |-> 0, iat |-> 0, jti |-> 0, username |-> None, email |-> None,
     kid |-> None, sig |-> None]

GenerateAccessToken(user_id, username, email, jti) ==
    [wf |-> TRUE, type |-> "access", sub |-> user_id, iss |-> Issuer,
     aud |-> Audience, exp |-> now + AccessTokenTtl, iat |-> now, jti |-> jti,
     username |-> username, email |-> email, kid |-> KeyId, sig |-> PrivateKey]

GenerateRefreshToken(user_id, jti) ==
    [wf |-> TRUE, type |-> "refresh", sub |-> user_id, iss |-> Issuer,
     aud |-> Issuer, exp |-> now + RefreshTokenTtl, iat |-> now, jti |-> jti,
     username |-> None, email |-> None, kid |-> KeyId, sig |-> PrivateKey]

\* validate_token that leaves out the comparison of the type claim
ValidateTokenAnyType(token, token_type) ==
    /\ token.wf
    /\ token.sig = PrivateKey
    /\ ~(token.exp <= now)
    /\ token.iss = Issuer
    /\ token.aud = (IF token_type = "refresh" THEN Issuer ELSE Audience)

\* validate_token decoding with verify_exp off
ValidateTokenNoExpiry(token, token_type) ==
    /\ token.wf
    /\ token.type = token_type
    /\ token.sig = PrivateKey
    /\ token.iss = Issuer
    /\ token.aud = (IF token_type = "refresh" THEN Issuer ELSE Audience)

\* validate_token decoding with verify_aud off
ValidateTokenAnyAudience(token, token_type) ==
    /\ token.wf
    /\ token.type = token_type
    /\ token.sig = PrivateKey
    /\ ~(token.exp <= now)
    /\ token.iss = Issuer

\* validate_token: TRUE iff the payload is returned; every failure is raised as
\* jwt.InvalidTokenError.  The unverified decode fails on a string that is no
\* JWT; the verifying decode checks signature, exp (exp <= now is expired),
\* issuer and audience.
ValidateToken(token, token_type) ==
    /\ token.wf
    /\ token.type = token_type
    /\ token.sig = PrivateKey
    /\ ~(token.exp <= now)
    /\ token.iss = Issuer
    /\ token.aud = (IF token_type = "refresh" THEN Issuer ELSE Audience)

\* the payload the verifying decode returns: the claims, without the header
\* and the signature
Payload(token) ==
    [sub |-> token.sub, iss |-> token.iss, aud |-> token.aud,
     exp |-> token.exp, iat |-> token.iat, jti |-> token.jti,
     type |-> token.type, username |-> token.username, email |-> token.email]

\* the public half of the key pair, and get_jwks: the one key the manager
\* has, under its key id
PublicKey == <<"public", PrivateKey>>

GetJwks ==
    [keys |-> <<[kty |-> "RSA", use |-> "sig", kid |-> KeyId, alg |-> "RS256",
                 n |-> <<"n", PublicKey>>, e |-> <<"e", PublicKey>>]>>]

\* a token response that gives the TTL as configured, in minutes
ExpiresInMinutes == AccessTokenTtl

\* "expires_in" of a token response: access_token_ttl * 60
ExpiresIn == AccessTokenTtl * 60

\* hash_token: SHA-256 of the token string, taken to be free of collisions
HashToken(token) == <<"sha256", token>>

(***************************************************************************)
(* PasswordManager: bcrypt as a black box.                                 *)
(***************************************************************************)
HashPassword(password) == <<"bcrypt", password>>
VerifyPassword(password, hashed) == hashed = HashPassword(password)

(***************************************************************************)
(* UserRepository (app/repositories/user_repository.py).                   *)
(***************************************************************************)
GetUserByIdentifier(rows, identifier) ==
    {r \in rows : r.email = identifier \/ r.username = identifier}

GetUserById(rows, user_id) == {r \in rows : r.id = user_id}

(***************************************************************************)
(* RefreshToken and RefreshTokenRepository.  created_at takes the model's  *)
(* column default, which is evaluated once, when the module is imported.   *)
(***************************************************************************)
BootTime == 0

\* RefreshToken.is_expired / is_valid
IsExpired(row) == now > row.expires_at
IsValid(row) == ~row.revoked /\ ~IsExpired(row)

\* is_expired compares datetime.now(timezone.utc) with expires_at, a DateTime
\* column declared without timezone: on a value read back naive the
\* comparison raises TypeError.  is_valid reaches it unless revoked is set.
IsValidRaises(row) == ~row.revoked /\ naive

CreateRefreshToken(rows, user_id, token_hash, expires_at, device_info) ==
    rows \cup {[user_id |-> user_id, token_hash |-> token_hash,
                expires_at |-> expires_at, revoked |-> FALSE,
                device_info |-> device_info, created_at |-> BootTime]}

\* get_refresh_token_by_hash: the rows .first() chooses from
GetRefreshTokenByHash(rows, token_hash) ==
    {r \in rows : r.token_hash = token_hash /\ r.revoked = FALSE}

\* revoke_refresh_token: the first row with the hash, revoked or not, is set
\* revoked; `row` is the row .first() returned
RevokeCandidates(rows, token_hash) == {r \in rows : r.token_hash = token_hash}
\* a revocation whose commit is lost
RevokeRowLost(rows, row) == rows

\* a revocation that flips the flag of the row instead of setting it
RevokeRowToggle(rows, row) ==
    (rows \ {row}) \cup {[row EXCEPT !.revoked = ~@]}

RevokeRow(rows, row) == (rows \ {row}) \cup {[row EXCEPT !.revoked = TRUE]}

\* revoke_refresh_token that looks for an unrevoked row only
RevokeRefreshTokenUnrevokedOnly(rows, token_hash) ==
    LET found == {r \in rows : r.token_hash = token_hash /\ ~r.revoked}
    IN  IF found = {} THEN {[rows |-> rows, returned |-> FALSE]}
        ELSE {[rows |-> RevokeRow(rows, row), returned |-> TRUE] :
                 row \in found}

\* revoke_refresh_token(token_hash): the rows after the call and the value
\* returned, for each row .first() may return
RevokeRefreshToken(rows, token_hash) ==
    IF RevokeCandidates(rows, token_hash) = {}
    THEN {[rows |-> rows, returned |-> FALSE]}
    ELSE {[rows |-> RevokeRow(rows, row), returned |-> TRUE] :
             row \in RevokeCandidates(rows, token_hash)}

\* revoke_user_tokens
RevokeUserTokens(rows, user_id) ==
    {IF r.user_id = user_id /\ r.revoked = FALSE
     THEN [r EXCEPT !.revoked = TRUE] ELSE r : r \in rows}

\* cleanup_expired_tokens
CleanupExpiredTokens(rows) == {r \in rows : ~(r.expires_at < now)}

\* get_user_tokens(active_only=True)
ActiveTokens(rows, user_id) ==
    {r \in rows : r.user_id = user_id /\ r.revoked = FALSE /\ r.expires_at > now}

\* limit_user_sessions: returns 0 and touches nothing
LimitUserSessions(rows, user_id, max_sessions) == [rows |-> rows, revoked |-> 0]

(***************************************************************************)
(* The clock and the environment of the limiter.                           *)
(***************************************************************************)
\* Redis removes a key whose expiry deadline has passed
ExpireKeys(store, t) ==
    [k \in Keys |-> IF store[k].exp # NoExpiry /\ store[k].exp <= t
                    THEN EmptyKey ELSE store[k]]

WindowOf(k) ==
    CASE k[1] = "ip" -> PerIpWindow
      [] k[1] = "identifier" -> PerIdentifierWindow
      [] OTHER -> PerAccountWindow

LimitOf(k) ==
    CASE k[1] = "ip" -> PerIpRequests
      [] k[1] = "identifier" -> PerIdentifierAttempts
      [] OTHER -> PerAccountAttempts

NoCalls == [k \in Keys |-> [t \in 0..MaxTime |-> 0]]

RECURSIVE SumOver(_, _)
SumOver(f, S) ==
    IF S = {} THEN 0
    ELSE LET x == CHOOSE y \in S : TRUE IN f[x] + SumOver(f, S \ {x})

\* every record_attempt call is logged under its ip key
TotalCalls(log) ==
    SumOver([i \in Ips |-> SumOver(log[IpKey(i)], 0..MaxTime)], Ips)

Passwords == {"S3cret!", "wrong"}

UserRow(id, email, username, password) ==
    [id |-> id, email |-> email, username |-> username,
     password_hash |-> HashPassword(password), is_active |-> TRUE]

\* the request a worker handles: its arguments, its locals, and its outcome
IdleProc ==
    [pc |-> "idle", op |-> None, ip |-> None, identifier |-> None,
     password |-> None, device |-> None, token |-> Garbage, user_id |-> None,
     user |-> {}, stored |-> {}, valid |-> FALSE, result |-> None,
     detail |-> None, pair |-> {}, wasRotated |-> FALSE, wasLoggedOut |-> FALSE,
     message |-> None, verified |-> FALSE, payload |-> {},
     email |-> None, confirm_password |-> None]

\* the service starts on a database that holds two registered users, with an
\* empty Redis and the limiter enabled (the default of rate_limits.enabled)
Init ==
    /\ now = 0
    /\ redis = [k \in Keys |-> EmptyKey]
    /\ enabled = TRUE
    /\ calls = NoCalls
    /\ users = {UserRow("u1", "alice@x.com", "alice", "S3cret!"),
                UserRow("u2", "bob@x.com", "bob", "S3cret!")}
    /\ refresh_tokens = {}
    /\ minted = 0
    /\ issued = {}
    /\ procs = [p \in Procs |-> IdleProc]
    /\ rotated = {}
    /\ loggedOut = {}
    /\ naive \in BOOLEAN
    /\ down = {}

Tick ==
    /\ now < MaxTime
    /\ now' = now + 1
    /\ redis' = ExpireKeys(redis, now + 1)
    /\ UNCHANGED <<naive, down, enabled, calls, storeVars, procVars>>

\* the service is restarted with login.rate_limits.enabled set the other way
Reconfigure ==
    /\ enabled' = ~enabled
    /\ UNCHANGED <<naive, down, now, redis, calls, storeVars, procVars>>

(***************************************************************************)
(* Direct calls of the limiter's public methods.                           *)
(***************************************************************************)
\* the arguments the direct calls are made with
LimiterIdentifiers == {"alice", None}
LimiterUserIds == UserIds \cup {None}

ScopeKeys(ip_address, identifier, user_id) ==
    {IpKey(ip_address)}
        \cup (IF identifier # None THEN {IdentifierKey(identifier)} ELSE {})
        \cup (IF user_id # None THEN {AccountKey(user_id)} ELSE {})

RLCheck(ip_address, identifier, user_id) ==
    /\ redis' = CheckRateLimit(redis, ip_address, identifier, user_id).store
    /\ UNCHANGED <<naive, down, now, enabled, calls, storeVars, procVars>>

\* the call log counts the calls made while the limiter is enabled
LogCalls(log, ks) ==
    [k \in Keys |-> IF k \in ks THEN [log[k] EXCEPT ![now] = @ + 1] ELSE log[k]]

RLRecord(ip_address, identifier, user_id) ==
    LET ks == ScopeKeys(ip_address, identifier, user_id)
    IN  /\ enabled => TotalCalls(calls) < MaxCalls
        /\ redis' = RecordAttempt(redis, ip_address, identifier, user_id)
        /\ calls' = IF enabled THEN LogCalls(calls, ks) ELSE calls
        /\ UNCHANGED <<naive, down, now, enabled, storeVars, procVars>>

\* the call log of a cleared key starts again
RLClear(user_id) ==
    /\ redis' = ClearUserRateLimits(redis, user_id)
    /\ calls' = [calls EXCEPT ![AccountKey(user_id)] = [t \in 0..MaxTime |-> 0]]
    /\ UNCHANGED <<naive, down, now, enabled, storeVars, procVars>>

RLRemaining(key_type, identifier) ==
    /\ redis' = GetRemainingAttempts(redis, key_type, identifier).store
    /\ UNCHANGED <<naive, down, now, enabled, calls, storeVars, procVars>>

NextLimiter ==
    \/ Tick
    \/ Reconfigure
    \/ \E ip \in Ips, x \in LimiterIdentifiers, u \in LimiterUserIds :
          RLCheck(ip, x, u)
    \/ \E ip \in Ips, x \in LimiterIdentifiers, u \in LimiterUserIds :
          RLRecord(ip, x, u)
    \/ \E u \in UserIds : RLClear(u)
    \/ \E k \in Keys : RLRemaining(k[1], k[2])

\* the limiter reads no DateTime column: one value of naive is enough
InitLimiter == Init /\ ~naive

SpecLimiter == InitLimiter /\ [][NextLimiter]_vars

\* the limiter's methods called as login_user calls them, for a known
\* identifier and account, while the limiter is switched on and off
NextGate ==
    \/ Tick
    \/ Reconfigure
    \/ \E ip \in Ips, u \in UserIds : RLCheck(ip, "alice", u)
    \/ \E ip \in Ips, u \in UserIds : RLRecord(ip, "alice", u)
    \/ \E u \in UserIds : RLClear(u)
    \/ \E k \in Keys : RLRemaining(k[1], k[2])

SpecGate == InitLimiter /\ [][NextGate]_vars

\* check_rate_limit and record_attempt alone, with the limiter left enabled
NextScopes ==
    \/ Tick
    \/ \E ip \in Ips, x \in LimiterIdentifiers, u \in LimiterUserIds :
          RLCheck(ip, x, u)
    \/ \E ip \in Ips, x \in LimiterIdentifiers, u \in LimiterUserIds :
          RLRecord(ip, x, u)

SpecScopes == InitLimiter /\ [][NextScopes]_vars

(***************************************************************************)
(* The environment of the orchestrator: an operator activates or           *)
(* deactivates an account, and the repository's expiry sweep.               *)
(***************************************************************************)
SetActive(user_id) ==
    /\ users' = {IF r.id = user_id THEN [r EXCEPT !.is_active = ~@] ELSE r :
                 r \in users}
    /\ UNCHANGED <<naive, down, now, limiterVars, refresh_tokens, minted, issued, procVars>>

\* the user's row is deleted; the relationship's cascade deletes the user's
\* refresh-token records with it
RemoveUser(user_id) ==
    /\ \E r \in users : r.id = user_id
    /\ users' = {r \in users : r.id # user_id}
    /\ refresh_tokens' = {r \in refresh_tokens : r.user_id # user_id}
    /\ UNCHANGED <<naive, down, now, limiterVars, minted, issued, procVars>>

Sweep ==
    /\ refresh_tokens' = CleanupExpiredTokens(refresh_tokens)
    /\ UNCHANGED <<naive, down, now, limiterVars, users, minted, issued, procVars>>

(***************************************************************************)
(* Errors (app/utils/errors.py) and the route's rendering of them.         *)
(***************************************************************************)
\* the message an error class carries when raised without one
DefaultMessage(code) ==
    CASE code = "INVALID_CREDENTIALS" -> "Invalid email/username or password"
      [] code = "ACCOUNT_INACTIVE" -> "Account is inactive or suspended"
      [] code = "RATE_LIMIT_EXCEEDED" -> "Too many requests. Please try again later"
      [] code = "INVALID_REFRESH_TOKEN" -> "Refresh token is invalid or expired"
      [] OTHER -> "Token is invalid or expired"

\* the messages check_rate_limit gives RateLimitError
RateLimitMessage(scope, ip_address, identifier) ==
    CASE scope = "ip" -> <<"Too many requests from IP", ip_address>>
      [] scope = "identifier" -> <<"Too many login attempts for", identifier>>
      [] OTHER -> <<"Account temporarily locked due to too many failed attempts">>

\* handle_auth_error: the body and status the caller sees for an AuthError
HandleAuthError(code, message) ==
    [code |-> code, message |-> message,
     status |-> CASE code = "INVALID_CREDENTIALS" -> 401
                  [] code = "ACCOUNT_INACTIVE" -> 403
                  [] code = "USER_ALREADY_EXISTS" -> 409
                  [] code = "RATE_LIMIT_EXCEEDED" -> 429
                  [] OTHER -> 400]

\* the body a route's `except Exception as e` branch returns with status 500:
\* the login route adds "details": str(e), the others have code and message
InternalErrorResponse(endpoint, exception) ==
    [code |-> "INTERNAL_ERROR", message |-> "An unexpected error occurred",
     details |-> IF endpoint = "login" THEN {exception} ELSE {},
     status |-> 500]

(***************************************************************************)
(* AuthService.login_user (app/services/auth_service.py), one action per   *)
(* call to Redis or to the database.                                       *)
(***************************************************************************)
\* a call to Redis raises; the limiter's check and record make none when
\* the limiter is disabled
RedisFails == "redis" \in down
LimiterFails == enabled /\ RedisFails

\* the request leaves the try block with an exception that is no AuthError
Raise(me, exception) ==
    [me EXCEPT !.pc = "l_except", !.result = "INTERNAL_ERROR",
               !.detail = exception, !.message = None]

\* login_user that looks the user up and verifies the password before it
\* acts on the outcome of check_rate_limit
LoginCheckLookupFirst(p, ip_address, identifier, password, device_info) ==
    /\ procs[p].pc = "idle"
    /\ LET r == CheckRateLimit(redis, ip_address, identifier, None)
           call == [IdleProc EXCEPT !.op = "login", !.ip = ip_address,
                                    !.identifier = identifier,
                                    !.password = password,
                                    !.device = device_info]
       IN  /\ redis' = r.store
           /\ procs' = [procs EXCEPT ![p] =
                 IF r.error = None
                 THEN [call EXCEPT !.pc = "l_lookup"]
                 ELSE [call EXCEPT !.pc = "l_except",
                                   !.user = GetUserByIdentifier(users, identifier),
                                   !.verified = TRUE,
                                   !.result = "RATE_LIMIT_EXCEEDED",
                                   !.detail = r.error,
                                   !.message = RateLimitMessage(r.error,
                                                   ip_address, identifier)]]
    /\ UNCHANGED <<naive, down, now, enabled, calls, storeVars, rotated, loggedOut>>

\* check_rate_limit(ip_address, identifier); a RateLimitError goes to the
\* handler, which records an attempt for ip and identifier and re-raises
LoginCheck(p, ip_address, identifier, password, device_info) ==
    /\ procs[p].pc = "idle"
    /\ LET r == CheckRateLimit(redis, ip_address, identifier, None)
           call == [IdleProc EXCEPT !.op = "login", !.ip = ip_address,
                                    !.identifier = identifier,
                                    !.password = password,
                                    !.device = device_info]
       IN  IF LimiterFails
           THEN /\ redis' = redis
                /\ procs' = [procs EXCEPT ![p] = Raise(call, "RedisError")]
           ELSE /\ redis' = r.store
                /\ procs' = [procs EXCEPT ![p] =
                      IF r.error = None
                      THEN [call EXCEPT !.pc = "l_lookup"]
                      ELSE [call EXCEPT !.pc = "l_except",
                                        !.result = "RATE_LIMIT_EXCEEDED",
                                        !.detail = r.error,
                                        !.message = RateLimitMessage(r.error,
                                                        ip_address, identifier)]]
    /\ UNCHANGED <<naive, down, now, enabled, calls, storeVars, rotated, loggedOut>>

\* get_user_by_identifier, the is_active test and verify_password; the
\* dummy_verify of the branch without a user is commented out in the source
LoginLookup(p) ==
    /\ procs[p].pc = "l_lookup"
    /\ LET me == procs[p]
           found == GetUserByIdentifier(users, me.identifier)
       IN  IF "db" \in down
           THEN procs' = [procs EXCEPT ![p] = Raise(me, "DatabaseError")]
           ELSE IF found = {}
           THEN procs' = [procs EXCEPT ![p] =
                    [me EXCEPT !.pc = "l_record",
                               !.result = "INVALID_CREDENTIALS",
                               !.message = DefaultMessage("INVALID_CREDENTIALS")]]
           ELSE \E user \in found :
                procs' = [procs EXCEPT ![p] =
                    IF ~user.is_active
                    THEN [me EXCEPT !.pc = "l_record", !.user = {user},
                                    !.user_id = user.id,
                                    !.result = "ACCOUNT_INACTIVE",
                                    !.message = DefaultMessage("ACCOUNT_INACTIVE")]
                    ELSE IF ~VerifyPassword(me.password, user.password_hash)
                    THEN [me EXCEPT !.pc = "l_record", !.user = {user},
                                    !.user_id = user.id, !.verified = TRUE,
                                    !.result = "INVALID_CREDENTIALS",
                                    !.message = DefaultMessage("INVALID_CREDENTIALS")]
                    ELSE [me EXCEPT !.pc = "l_clear", !.user = {user},
                                    !.user_id = user.id, !.verified = TRUE]]
    /\ UNCHANGED <<naive, down, now, limiterVars, storeVars, rotated, loggedOut>>

\* record_attempt(ip_address, identifier[, user.id]) that drops the account
LoginRecordNoAccount(p) ==
    /\ procs[p].pc = "l_record"
    /\ LET me == procs[p]
       IN  /\ redis' = RecordAttempt(redis, me.ip, me.identifier, None)
           /\ procs' = [procs EXCEPT ![p] = [me EXCEPT !.pc = "done"]]
    /\ UNCHANGED <<naive, down, now, enabled, calls, storeVars, rotated, loggedOut>>

\* the failure is raised without record_attempt
LoginRecordNothing(p) ==
    /\ procs[p].pc = "l_record"
    /\ procs' = [procs EXCEPT ![p] = [@ EXCEPT !.pc = "done"]]
    /\ UNCHANGED <<naive, down, now, limiterVars, storeVars, rotated, loggedOut>>

\* login_user whose handler does not leave out InvalidCredentialsError and
\* AccountInactiveError: the error raised after record_attempt goes on to
\* the handler's record_attempt
LoginRecordThenHandler(p) ==
    /\ procs[p].pc = "l_record"
    /\ LET me == procs[p]
       IN  /\ redis' = IF LimiterFails THEN redis
                       ELSE RecordAttempt(redis, me.ip, me.identifier, me.user_id)
           /\ procs' = [procs EXCEPT ![p] = [me EXCEPT !.pc = "l_except"]]
    /\ UNCHANGED <<naive, down, now, enabled, calls, storeVars, rotated, loggedOut>>

\* record_attempt(ip_address, identifier[, user.id]) in the branch that then
\* raises InvalidCredentialsError or AccountInactiveError
LoginRecord(p) ==
    /\ procs[p].pc = "l_record"
    /\ LET me == procs[p]
       IN  IF LimiterFails
           THEN /\ redis' = redis
                /\ procs' = [procs EXCEPT ![p] = Raise(me, "RedisError")]
           ELSE /\ redis' = RecordAttempt(redis, me.ip, me.identifier, me.user_id)
                /\ procs' = [procs EXCEPT ![p] = [me EXCEPT !.pc = "done"]]
    /\ UNCHANGED <<naive, down, now, enabled, calls, storeVars, rotated, loggedOut>>

\* a handler that leaves out RateLimitError as well
LoginExceptNoRateLimit(p) ==
    /\ procs[p].pc = "l_except"
    /\ LET me == procs[p]
       IN  /\ redis' = IF me.result = "RATE_LIMIT_EXCEEDED" THEN redis
                       ELSE RecordAttempt(redis, me.ip, me.identifier, None)
           /\ procs' = [procs EXCEPT ![p] = [me EXCEPT !.pc = "done"]]
    /\ UNCHANGED <<naive, down, now, enabled, calls, storeVars, rotated, loggedOut>>

\* except Exception: record_attempt(ip_address, identifier) unless the error is
\* InvalidCredentialsError or AccountInactiveError, then raise; an exception
\* raised by record_attempt leaves the handler in place of the first one
LoginExcept(p) ==
    /\ procs[p].pc = "l_except"
    /\ LET me == procs[p]
       IN  IF LimiterFails
           THEN /\ redis' = redis
                /\ procs' = [procs EXCEPT ![p] =
                      [me EXCEPT !.pc = "done", !.result = "INTERNAL_ERROR",
                                 !.detail = "RedisError", !.message = None]]
           ELSE /\ redis' = RecordAttempt(redis, me.ip, me.identifier, None)
                /\ procs' = [procs EXCEPT ![p] = [me EXCEPT !.pc = "done"]]
    /\ UNCHANGED <<naive, down, now, enabled, calls, storeVars, rotated, loggedOut>>

\* clear_user_rate_limits(user.id)
LoginClear(p) ==
    /\ procs[p].pc = "l_clear"
    /\ LET me == procs[p]
       IN  IF RedisFails
           THEN /\ redis' = redis
                /\ procs' = [procs EXCEPT ![p] = Raise(me, "RedisError")]
           ELSE /\ redis' = ClearUserRateLimits(redis, me.user_id)
                /\ procs' = [procs EXCEPT ![p] = [me EXCEPT !.pc = "l_create"]]
    /\ UNCHANGED <<naive, down, now, enabled, calls, storeVars, rotated, loggedOut>>

\* create_tokens, create_refresh_token, limit_user_sessions, return
LoginCreate(p) ==
    /\ procs[p].pc = "l_create"
    /\ minted < MaxPairs
    /\ LET me == procs[p]
           user == CHOOSE u \in me.user : TRUE
           access_token == GenerateAccessToken(user.id, user.username,
                                               user.email, 2 * minted + 1)
           refresh_token == GenerateRefreshToken(user.id, 2 * minted + 2)
           token_hash == HashToken(refresh_token)
           expires_at == now + RefreshTokenTtl
           created == CreateRefreshToken(refresh_tokens, user.id, token_hash,
                                         expires_at, me.device)
       IN  IF "jwt" \in down \/ "db" \in down
           THEN /\ procs' = [procs EXCEPT ![p] =
                      Raise(me, IF "jwt" \in down THEN "SigningError"
                                ELSE "DatabaseError")]
                /\ UNCHANGED <<refresh_tokens, issued, minted>>
           ELSE /\ refresh_tokens' =
                      LimitUserSessions(created, user.id, MaxSessions).rows
                /\ issued' = issued \cup {access_token, refresh_token}
                /\ procs' = [procs EXCEPT ![p] =
                      [me EXCEPT !.pc = "done", !.result = "OK",
                                 !.pair = {[access_token |-> access_token,
                                            refresh_token |-> refresh_token,
                                            expires_in |-> ExpiresIn]}]]
                /\ minted' = minted + 1
    /\ UNCHANGED <<naive, down, now, limiterVars, users, rotated, loggedOut>>

(***************************************************************************)
(* AuthService.refresh_tokens                                              *)
(***************************************************************************)
\* the tokens a client can present: those handed out, and a string that is
\* no JWT
Presentable == issued \cup {Garbage}

\* an exception that is neither an AuthError nor a jwt.InvalidTokenError leaves
\* refresh_tokens uncaught
Fails(me, exception) ==
    [me EXCEPT !.pc = "done", !.result = "INTERNAL_ERROR", !.detail = exception]

\* validate_token(refresh_token, "refresh"); jwt.InvalidTokenError becomes
\* InvalidRefreshTokenError
RefreshValidate(p, refresh_token) ==
    /\ procs[p].pc = "idle"
    /\ LET call == [IdleProc EXCEPT !.op = "refresh", !.token = refresh_token,
                                    !.wasRotated = refresh_token \in rotated,
                                    !.wasLoggedOut = refresh_token \in loggedOut]
       IN  procs' = [procs EXCEPT ![p] =
              IF ValidateToken(refresh_token, "refresh")
              THEN [call EXCEPT !.pc = "r_lookup", !.valid = TRUE,
                                !.user_id = refresh_token.sub]
              ELSE [call EXCEPT !.pc = "done",
                                !.result = "INVALID_REFRESH_TOKEN"]]
    /\ UNCHANGED <<naive, down, now, limiterVars, storeVars, rotated, loggedOut>>

\* get_refresh_token_by_hash and stored_token.is_valid(); a TypeError is no
\* jwt.InvalidTokenError and leaves refresh_tokens as it is
RefreshLookup(p) ==
    /\ procs[p].pc = "r_lookup"
    /\ LET me == procs[p]
           found == GetRefreshTokenByHash(refresh_tokens, HashToken(me.token))
       IN  IF "db" \in down
           THEN procs' = [procs EXCEPT ![p] = Fails(me, "DatabaseError")]
           ELSE IF found = {}
           THEN procs' = [procs EXCEPT ![p] =
                    [me EXCEPT !.pc = "done", !.result = "INVALID_REFRESH_TOKEN"]]
           ELSE \E stored_token \in found :
                procs' = [procs EXCEPT ![p] =
                    IF IsValidRaises(stored_token)
                    THEN [me EXCEPT !.pc = "done", !.result = "INTERNAL_ERROR",
                                    !.detail = "TypeError"]
                    ELSE IF ~IsValid(stored_token)
                    THEN [me EXCEPT !.pc = "done",
                                    !.result = "INVALID_REFRESH_TOKEN"]
                    ELSE [me EXCEPT !.pc = "r_user", !.stored = {stored_token}]]
    /\ UNCHANGED <<naive, down, now, limiterVars, storeVars, rotated, loggedOut>>

\* refresh_tokens that revokes the presented token's record before it looks
\* at the user
RefreshUserRevokeFirst(p) ==
    /\ procs[p].pc = "r_user"
    /\ LET me == procs[p]
           found == GetUserById(users, me.user_id)
       IN  /\ refresh_tokens' =
                 {IF r.token_hash = HashToken(me.token)
                  THEN [r EXCEPT !.revoked = TRUE] ELSE r : r \in refresh_tokens}
           /\ procs' = [procs EXCEPT ![p] =
                 IF \E user \in found : user.is_active
                 THEN [me EXCEPT !.pc = "r_create",
                                 !.user = {CHOOSE user \in found : TRUE}]
                 ELSE [me EXCEPT !.pc = "done",
                                 !.result = "INVALID_REFRESH_TOKEN",
                                 !.detail = "User account is inactive"]]
    /\ UNCHANGED <<naive, down, now, limiterVars, users, minted, issued, rotated, loggedOut>>

\* get_user_by_id and the is_active test
RefreshUser(p) ==
    /\ procs[p].pc = "r_user"
    /\ LET me == procs[p]
           found == GetUserById(users, me.user_id)
       IN  IF "db" \in down
           THEN procs' = [procs EXCEPT ![p] = Fails(me, "DatabaseError")]
           ELSE IF found = {}
           THEN procs' = [procs EXCEPT ![p] =
                    [me EXCEPT !.pc = "done", !.result = "INVALID_REFRESH_TOKEN",
                               !.detail = "User account is inactive"]]
           ELSE \E user \in found :
                procs' = [procs EXCEPT ![p] =
                    IF ~user.is_active
                    THEN [me EXCEPT !.pc = "done",
                                    !.result = "INVALID_REFRESH_TOKEN",
                                    !.detail = "User account is inactive"]
                    ELSE [me EXCEPT !.pc = "r_revoke", !.user = {user}]]
    /\ UNCHANGED <<naive, down, now, limiterVars, storeVars, rotated, loggedOut>>

\* revoke_refresh_token(token_hash): the rows after the call
Revoked(rows, token_hash) ==
    IF RevokeCandidates(rows, token_hash) = {} THEN {rows}
    ELSE {RevokeRow(rows, row) : row \in RevokeCandidates(rows, token_hash)}

\* refresh_tokens without its revoke_refresh_token call
RefreshRevokeSkipped(p) ==
    /\ procs[p].pc = "r_revoke"
    /\ procs' = [procs EXCEPT ![p] = [@ EXCEPT !.pc = "r_create"]]
    /\ UNCHANGED <<naive, down, now, limiterVars, storeVars, rotated, loggedOut>>

RefreshRevoke(p) ==
    /\ procs[p].pc = "r_revoke"
    /\ IF "db" \in down
       THEN /\ procs' = [procs EXCEPT ![p] = Fails(@, "DatabaseError")]
            /\ refresh_tokens' = refresh_tokens
       ELSE /\ refresh_tokens' \in
                  Revoked(refresh_tokens, HashToken(procs[p].token))
            /\ procs' = [procs EXCEPT ![p] = [@ EXCEPT !.pc = "r_create"]]
    /\ UNCHANGED <<naive, down, now, limiterVars, users, minted, issued, rotated, loggedOut>>

\* refresh_tokens that swallows the failure of create_refresh_token and
\* returns the pair
RefreshCreateAbsorbed(p) ==
    /\ procs[p].pc = "r_create"
    /\ minted < MaxPairs
    /\ LET me == procs[p]
           user == CHOOSE u \in me.user : TRUE
           stored_token == CHOOSE r \in me.stored : TRUE
           new_access_token == GenerateAccessToken(user.id, user.username,
                                                   user.email, 2 * minted + 1)
           new_refresh_token == GenerateRefreshToken(user.id, 2 * minted + 2)
           new_token_hash == HashToken(new_refresh_token)
           expires_at == now + RefreshTokenTtl
       IN  /\ refresh_tokens' =
                 IF "db" \in down THEN refresh_tokens
                 ELSE CreateRefreshToken(refresh_tokens, user.id,
                                         new_token_hash, expires_at,
                                         stored_token.device_info)
           /\ issued' = issued \cup {new_access_token, new_refresh_token}
           /\ procs' = [procs EXCEPT ![p] =
                 [me EXCEPT !.pc = "done", !.result = "OK",
                            !.pair = {[access_token |-> new_access_token,
                                       refresh_token |-> new_refresh_token,
                                       expires_in |-> ExpiresIn]}]]
           /\ rotated' = rotated \cup {me.token}
           /\ minted' = minted + 1
    /\ UNCHANGED <<naive, down, now, limiterVars, users, loggedOut>>

\* refresh_tokens that stores the new record without a device descriptor
\* instead of handing on the one of the record it read
RefreshCreateNoDevice(p) ==
    /\ procs[p].pc = "r_create"
    /\ minted < MaxPairs
    /\ LET me == procs[p]
           user == CHOOSE u \in me.user : TRUE
           new_access_token == GenerateAccessToken(user.id, user.username,
                                                   user.email, 2 * minted + 1)
           new_refresh_token == GenerateRefreshToken(user.id, 2 * minted + 2)
           new_token_hash == HashToken(new_refresh_token)
           expires_at == now + RefreshTokenTtl
       IN  /\ refresh_tokens' =
                 CreateRefreshToken(refresh_tokens, user.id, new_token_hash,
                                    expires_at, None)
           /\ issued' = issued \cup {new_access_token, new_refresh_token}
           /\ procs' = [procs EXCEPT ![p] =
                 [me EXCEPT !.pc = "done", !.result = "OK",
                            !.pair = {[access_token |-> new_access_token,
                                       refresh_token |-> new_refresh_token,
                                       expires_in |-> ExpiresIn]}]]
           /\ rotated' = rotated \cup {me.token}
           /\ minted' = minted + 1
    /\ UNCHANGED <<naive, down, now, limiterVars, users, loggedOut>>

\* the new pair, create_refresh_token with the old row's device_info, return
RefreshCreate(p) ==
    /\ procs[p].pc = "r_create"
    /\ minted < MaxPairs
    /\ LET me == procs[p]
           user == CHOOSE u \in me.user : TRUE
           stored_token == CHOOSE r \in me.stored : TRUE
           new_access_token == GenerateAccessToken(user.id, user.username,
                                                   user.email, 2 * minted + 1)
           new_refresh_token == GenerateRefreshToken(user.id, 2 * minted + 2)
           new_token_hash == HashToken(new_refresh_token)
           expires_at == now + RefreshTokenTtl
       IN  IF "jwt" \in down \/ "db" \in down
           THEN /\ procs' = [procs EXCEPT ![p] =
                      Fails(me, IF "jwt" \in down THEN "SigningError"
                                ELSE "DatabaseError")]
                /\ UNCHANGED <<refresh_tokens, issued, minted, rotated>>
           ELSE /\ refresh_tokens' =
                      CreateRefreshToken(refresh_tokens, user.id,
                                         new_token_hash, expires_at,
                                         stored_token.device_info)
                /\ issued' = issued \cup {new_access_token, new_refresh_token}
                /\ procs' = [procs EXCEPT ![p] =
                      [me EXCEPT !.pc = "done", !.result = "OK",
                                 !.pair = {[access_token |-> new_access_token,
                                            refresh_token |-> new_refresh_token,
                                            expires_in |-> ExpiresIn]}]]
                /\ rotated' = rotated \cup {me.token}
                /\ minted' = minted + 1
    /\ UNCHANGED <<naive, down, now, limiterVars, users, loggedOut>>

(***************************************************************************)
(* AuthService.logout_user                                                 *)
(***************************************************************************)
\* validate_token(refresh_token, "refresh"); on jwt.InvalidTokenError the
\* handler goes on to the same revocation
LogoutValidate(p, refresh_token) ==
    /\ procs[p].pc = "idle"
    /\ procs' = [procs EXCEPT ![p] =
          [IdleProc EXCEPT !.op = "logout", !.token = refresh_token,
                           !.pc = "o_revoke",
                           !.valid = ValidateToken(refresh_token, "refresh")]]
    /\ UNCHANGED <<naive, down, now, limiterVars, storeVars, rotated, loggedOut>>

\* logout_user whose except branch only swallows the error
LogoutRevokeValidOnly(p) ==
    /\ procs[p].pc = "o_revoke"
    /\ IF procs[p].valid
       THEN refresh_tokens' \in Revoked(refresh_tokens, HashToken(procs[p].token))
       ELSE refresh_tokens' = refresh_tokens
    /\ procs' = [procs EXCEPT ![p] = [@ EXCEPT !.pc = "done", !.result = "OK"]]
    /\ loggedOut' = IF RevokeCandidates(refresh_tokens, HashToken(procs[p].token)) = {}
                       \/ ~procs[p].valid
                    THEN loggedOut
                    ELSE loggedOut \cup {procs[p].token}
    /\ UNCHANGED <<naive, down, now, limiterVars, users, minted, issued, rotated>>

\* revoke_refresh_token(hash_token(refresh_token)), return None
LogoutRevoke(p) ==
    /\ procs[p].pc = "o_revoke"
    /\ refresh_tokens' \in Revoked(refresh_tokens, HashToken(procs[p].token))
    /\ procs' = [procs EXCEPT ![p] = [@ EXCEPT !.pc = "done", !.result = "OK"]]
    /\ loggedOut' = IF RevokeCandidates(refresh_tokens, HashToken(procs[p].token)) = {}
                    THEN loggedOut
                    ELSE loggedOut \cup {procs[p].token}
    /\ UNCHANGED <<naive, down, now, limiterVars, users, minted, issued, rotated>>

(***************************************************************************)
(* AuthService.validate_access_token                                       *)
(***************************************************************************)
\* validate_token(token, "access"); jwt.InvalidTokenError becomes
\* InvalidCredentialsError("Invalid or expired access token")
AccessValidate(p, token) ==
    /\ procs[p].pc = "idle"
    /\ LET call == [IdleProc EXCEPT !.op = "access", !.token = token]
       IN  procs' = [procs EXCEPT ![p] =
              IF ValidateToken(token, "access")
              THEN [call EXCEPT !.pc = "a_user", !.valid = TRUE,
                                !.user_id = token.sub]
              ELSE [call EXCEPT !.pc = "done",
                                !.result = "INVALID_CREDENTIALS",
                                !.message = "Invalid or expired access token"]]
    /\ UNCHANGED <<naive, down, now, limiterVars, storeVars, rotated, loggedOut>>

\* validate_access_token that does not look at is_active
AccessUserAnyState(p) ==
    /\ procs[p].pc = "a_user"
    /\ LET me == procs[p]
       IN  procs' = [procs EXCEPT ![p] =
              IF GetUserById(users, me.user_id) = {}
              THEN [me EXCEPT !.pc = "done", !.result = "INVALID_CREDENTIALS",
                              !.message = "Invalid or expired access token"]
              ELSE [me EXCEPT !.pc = "done", !.result = "OK",
                              !.user = GetUserById(users, me.user_id)]]
    /\ UNCHANGED <<naive, down, now, limiterVars, storeVars, rotated, loggedOut>>

\* validate_access_token that also asks for an unrevoked refresh-token
\* record of the user
AccessUserNeedsSession(p) ==
    /\ procs[p].pc = "a_user"
    /\ LET me == procs[p]
           found == {u \in GetUserById(users, me.user_id) : u.is_active}
       IN  procs' = [procs EXCEPT ![p] =
              IF found = {} \/ \A r \in refresh_tokens :
                                  r.user_id = me.user_id => r.revoked
              THEN [me EXCEPT !.pc = "done", !.result = "INVALID_CREDENTIALS",
                              !.message = "Invalid or expired access token"]
              ELSE [me EXCEPT !.pc = "done", !.result = "OK", !.user = found]]
    /\ UNCHANGED <<naive, down, now, limiterVars, storeVars, rotated, loggedOut>>

\* get_user_by_id(payload["sub"]) and the is_active test; the payload is
\* returned
AccessUser(p) ==
    /\ procs[p].pc = "a_user"
    /\ LET me == procs[p]
           found == GetUserById(users, me.user_id)
       IN  IF "db" \in down
           THEN procs' = [procs EXCEPT ![p] =
                    [me EXCEPT !.pc = "done", !.result = "INTERNAL_ERROR",
                               !.detail = "DatabaseError"]]
           ELSE IF found = {}
           THEN procs' = [procs EXCEPT ![p] =
                    [me EXCEPT !.pc = "done", !.result = "INVALID_CREDENTIALS",
                               !.message = "Invalid or expired access token"]]
           ELSE \E user \in found :
                procs' = [procs EXCEPT ![p] =
                    IF ~user.is_active
                    THEN [me EXCEPT !.pc = "done",
                                    !.result = "INVALID_CREDENTIALS",
                                    !.message = "Invalid or expired access token"]
                    ELSE [me EXCEPT !.pc = "done", !.result = "OK",
                                    !.user = {user}]]
    /\ UNCHANGED <<naive, down, now, limiterVars, storeVars, rotated, loggedOut>>

(***************************************************************************)
(* AuthService.register_user.  Python's str methods work on characters, so *)
(* the strings a registration request carries are given with their         *)
(* characters.                                                             *)
(***************************************************************************)
RegUsernames == {"dan", "Eve", "alice"}
RegEmails == {"dan@x.com", "me@x.com", "Alice@x.com"}
RegPasswords == {"S3cret!x", "1!Dan-pw", "S0me!pwd"}

Texts == RegUsernames \cup RegEmails \cup RegPasswords \cup {"alice@x.com"}

Chars(s) ==
    CASE s = "dan" -> <<"d", "a", "n">>
      [] s = "Eve" -> <<"E", "v", "e">>
      [] s = "alice" -> <<"a", "l", "i", "c", "e">>
      [] s = "dan@x.com" -> <<"d", "a", "n", "@", "x", ".", "c", "o", "m">>
      [] s = "me@x.com" -> <<"m", "e", "@", "x", ".", "c", "o", "m">>
      [] s = "Alice@x.com" ->
            <<"A", "l", "i", "c", "e", "@", "x", ".", "c", "o", "m">>
      [] s = "alice@x.com" ->
            <<"a", "l", "i", "c", "e", "@", "x", ".", "c", "o", "m">>
      [] s = "S3cret!x" -> <<"S", "3", "c", "r", "e", "t", "!", "x">>
      [] s = "1!Dan-pw" -> <<"1", "!", "D", "a", "n", "-", "p", "w">>
      [] s = "S0me!pwd" -> <<"S", "0", "m", "e", "!", "p", "w", "d">>

\* str.lower(), character by character
LowerChar(c) ==
    CASE c = "A" -> "a" [] c = "D" -> "d" [] c = "E" -> "e" [] c = "S" -> "s"
      [] OTHER -> c

LowerChars(cs) == [i \in 1 .. Len(cs) |-> LowerChar(cs[i])]

\* s.lower() for the strings that are stored
Lower(s) == CHOOSE t \in Texts : Chars(t) = LowerChars(Chars(s))

\* `sub in cs`
Contains(sub, cs) ==
    \E i \in 1 .. Len(cs) - Len(sub) + 1 : SubSeq(cs, i, i + Len(sub) - 1) = sub

\* s.split("@")[0]
LocalPart(cs) ==
    IF \E i \in 1 .. Len(cs) : cs[i] = "@"
    THEN SubSeq(cs, 1, (CHOOSE i \in 1 .. Len(cs) :
                          /\ cs[i] = "@"
                          /\ \A j \in 1 .. i - 1 : cs[j] # "@") - 1)
    ELSE cs

\* the complexity test of register_user
EmbedsName(username, email, password) ==
    \/ Contains(LowerChars(Chars(username)), LowerChars(Chars(password)))
    \/ Contains(LowerChars(LocalPart(Chars(email))), LowerChars(Chars(password)))

\* BaseModel.id takes uuid.uuid4(): an id no row has had
NewUserIds == {"u3", "u4"}

\* the two tests before the password is hashed
RegisterValidate(p, email, username, password, confirm_password) ==
    /\ procs[p].pc = "idle"
    /\ LET call == [IdleProc EXCEPT !.op = "register", !.email = email,
                                    !.identifier = username,
                                    !.password = password,
                                    !.confirm_password = confirm_password]
       IN  procs' = [procs EXCEPT ![p] =
              IF password # confirm_password
              THEN [call EXCEPT !.pc = "done", !.result = "VALIDATION_FAILED",
                                !.message = "Password confirmation does not match"]
              ELSE IF EmbedsName(username, email, password)
              THEN [call EXCEPT !.pc = "done", !.result = "VALIDATION_FAILED",
                                !.message = "Password cannot contain username or email"]
              ELSE [call EXCEPT !.pc = "g_create"]]
    /\ UNCHANGED <<naive, down, now, limiterVars, storeVars, rotated, loggedOut>>

\* create_user that lets the unique index on username go
RegisterCreateUserEmailOnly(p) ==
    /\ procs[p].pc = "g_create"
    /\ LET me == procs[p]
       IN  IF \E u \in users : u.email = Lower(me.email)
           THEN /\ procs' = [procs EXCEPT ![p] =
                      [me EXCEPT !.pc = "done", !.result = "USER_ALREADY_EXISTS",
                                 !.message = "User with this email or username already exists"]]
                /\ users' = users
           ELSE \E id \in NewUserIds \ {u.id : u \in users} :
                  LET row == UserRow(id, Lower(me.email), me.identifier,
                                     me.password)
                  IN  /\ users' = users \cup {row}
                      /\ procs' = [procs EXCEPT ![p] =
                            [me EXCEPT !.pc = "g_tokens", !.user = {row},
                                       !.user_id = id]]
    /\ UNCHANGED <<naive, down, now, limiterVars, refresh_tokens, minted, issued,
                   rotated, loggedOut>>

\* create_user: the row is inserted with the email in lower case; the unique
\* indexes on email and username turn a duplicate into ConflictError
RegisterCreateUser(p) ==
    /\ procs[p].pc = "g_create"
    /\ LET me == procs[p]
       IN  IF "db" \in down
           THEN /\ procs' = [procs EXCEPT ![p] =
                      [me EXCEPT !.pc = "done", !.result = "INTERNAL_ERROR",
                                 !.detail = "DatabaseError"]]
                /\ users' = users
           ELSE IF \E u \in users : \/ u.email = Lower(me.email)
                                    \/ u.username = me.identifier
           THEN /\ procs' = [procs EXCEPT ![p] =
                      [me EXCEPT !.pc = "done", !.result = "USER_ALREADY_EXISTS",
                                 !.message = "User with this email or username already exists"]]
                /\ users' = users
           ELSE \E id \in NewUserIds \ {u.id : u \in users} :
                  LET row == UserRow(id, Lower(me.email), me.identifier,
                                     me.password)
                  IN  /\ users' = users \cup {row}
                      /\ procs' = [procs EXCEPT ![p] =
                            [me EXCEPT !.pc = "g_tokens", !.user = {row},
                                       !.user_id = id]]
    /\ UNCHANGED <<naive, down, now, limiterVars, refresh_tokens, minted, issued,
                   rotated, loggedOut>>

\* register_user that stores the record of its refresh token as login_user
\* does
RegisterTokensStored(p) ==
    /\ procs[p].pc = "g_tokens"
    /\ minted < MaxPairs
    /\ LET me == procs[p]
           user == CHOOSE u \in me.user : TRUE
           access_token == GenerateAccessToken(user.id, user.username,
                                               user.email, 2 * minted + 1)
           refresh_token == GenerateRefreshToken(user.id, 2 * minted + 2)
       IN  /\ issued' = issued \cup {access_token, refresh_token}
           /\ refresh_tokens' =
                 CreateRefreshToken(refresh_tokens, user.id,
                                    HashToken(refresh_token),
                                    now + RefreshTokenTtl, None)
           /\ procs' = [procs EXCEPT ![p] =
                 [me EXCEPT !.pc = "done", !.result = "OK",
                            !.pair = {[access_token |-> access_token,
                                       refresh_token |-> refresh_token,
                                       expires_in |-> ExpiresIn]}]]
           /\ minted' = minted + 1
    /\ UNCHANGED <<naive, down, now, limiterVars, users, rotated, loggedOut>>

\* create_tokens: the pair is generated and returned; register_user stores
\* no refresh-token record
RegisterTokens(p) ==
    /\ procs[p].pc = "g_tokens"
    /\ minted < MaxPairs
    /\ LET me == procs[p]
           user == CHOOSE u \in me.user : TRUE
           access_token == GenerateAccessToken(user.id, user.username,
                                               user.email, 2 * minted + 1)
           refresh_token == GenerateRefreshToken(user.id, 2 * minted + 2)
       IN  IF "jwt" \in down
           THEN /\ procs' = [procs EXCEPT ![p] =
                      [me EXCEPT !.pc = "done", !.result = "INTERNAL_ERROR",
                                 !.detail = "SigningError"]]
                /\ UNCHANGED <<issued, minted>>
           ELSE /\ issued' = issued \cup {access_token, refresh_token}
                /\ procs' = [procs EXCEPT ![p] =
                      [me EXCEPT !.pc = "done", !.result = "OK",
                                 !.pair = {[access_token |-> access_token,
                                            refresh_token |-> refresh_token,
                                            expires_in |-> ExpiresIn]}]]
                /\ minted' = minted + 1
    /\ UNCHANGED <<naive, down, now, limiterVars, users, refresh_tokens, rotated,
                   loggedOut>>

(***************************************************************************)
(* JWTManager called directly: a token is generated, and the token, a copy *)
(* of it with one claim or the signing key changed, or a string that is no *)
(* JWT is validated.  JWTService (app/services/jwt_service.py) has the     *)
(* same generate_* and validate_token, without the rewrapping of the       *)
(* exception.                                                              *)
(***************************************************************************)
TokenTypes == {"access", "refresh"}
OtherKey == "other-key"
OtherIssuer == "other-issuer"
OtherAudience == "other-audience"

\* generate_access_token / generate_refresh_token for a registered user
JwtGenerate(p, user_id, token_type) ==
    /\ procs[p].pc = "idle"
    /\ minted < MaxPairs
    /\ \E u \in GetUserById(users, user_id) :
          procs' = [procs EXCEPT ![p] =
             [IdleProc EXCEPT
                !.pc = "j_token", !.op = "generate", !.user_id = user_id,
                !.token = IF token_type = "access"
                          THEN GenerateAccessToken(u.id, u.username, u.email,
                                                   minted)
                          ELSE GenerateRefreshToken(u.id, minted)]]
    /\ minted' = minted + 1
    /\ UNCHANGED <<naive, down, now, limiterVars, users, refresh_tokens, issued,
                   rotated, loggedOut>>

\* what a caller holding token t can hand to validate_token: t, t signed by
\* another key, t with another issuer, audience, type or expiry signed by the
\* service's key, and a string that is no JWT
Variants(t) ==
    {t, Garbage, [t EXCEPT !.sig = OtherKey], [t EXCEPT !.iss = OtherIssuer],
     [t EXCEPT !.type = IF t.type = "access" THEN "refresh" ELSE "access"]}
      \cup {[t EXCEPT !.aud = a] : a \in {Issuer, Audience, OtherAudience}}
      \cup {[t EXCEPT !.exp = e] : e \in 0 .. MaxTime}

\* validate_token(token, token_type): the payload (payload holds it), or
\* jwt.InvalidTokenError (payload is empty)
JwtValidate(p, token, token_type) ==
    /\ procs[p].pc = "j_token"
    /\ token \in Variants(procs[p].token)
    /\ procs' = [procs EXCEPT ![p] =
          IF ValidateToken(token, token_type)
          THEN [@ EXCEPT !.pc = "done", !.op = "validate", !.token = token,
                         !.detail = token_type, !.valid = TRUE,
                         !.result = "OK", !.payload = {Payload(token)}]
          ELSE [@ EXCEPT !.pc = "done", !.op = "validate", !.token = token,
                         !.detail = token_type, !.valid = FALSE,
                         !.result = "INVALID_TOKEN"]]
    /\ UNCHANGED <<naive, down, now, limiterVars, storeVars, rotated, loggedOut>>

\* RefreshTokenRepository.revoke_refresh_token called on the hash of a token;
\* stored keeps the rows with that hash as they were before the call
RepoRevoke(p, token) ==
    /\ procs[p].pc = "idle"
    /\ \E out \in RevokeRefreshToken(refresh_tokens, HashToken(token)) :
          /\ refresh_tokens' = out.rows
          /\ procs' = [procs EXCEPT ![p] =
                [IdleProc EXCEPT
                   !.pc = "done", !.op = "revoke", !.token = token,
                   !.stored = RevokeCandidates(refresh_tokens, HashToken(token)),
                   !.valid = out.returned, !.result = "OK"]]
    /\ UNCHANGED <<naive, down, now, limiterVars, users, minted, issued, rotated,
                   loggedOut>>

\* GET /.well-known/jwks.json: AuthService.get_jwks, JWTManager.get_jwks
JwksGet(p) ==
    /\ procs[p].pc = "idle"
    /\ procs' = [procs EXCEPT ![p] =
          [IdleProc EXCEPT !.pc = "done", !.op = "jwks", !.result = "OK",
                           !.payload = {GetJwks}]]
    /\ UNCHANGED <<naive, down, now, limiterVars, storeVars, rotated, loggedOut>>

\* the response is sent and the worker takes the next request
Return(p) ==
    /\ procs[p].pc = "done"
    /\ procs' = [procs EXCEPT ![p] = IdleProc]
    /\ UNCHANGED <<naive, down, now, limiterVars, storeVars, rotated, loggedOut>>

(***************************************************************************)
(* Specifications.                                                         *)
(*   Spec            one worker; logins with the right password, refresh,  *)
(*                   logout, the clock and the repository's maintenance    *)
(*   SpecLogin       one worker; every login, the clock, account           *)
(*                   activation                                            *)
(*   SpecConcurrent  two workers whose requests interleave; logins with    *)
(*                   the right password, refresh, logout                   *)
(*   SpecLimiter     direct calls of the limiter's methods                 *)
(*   SpecScopes      direct calls of check_rate_limit and record_attempt   *)
(*   SpecAccount     one worker; login and refresh while an account is     *)
(*                   deactivated, activated or deleted                     *)
(*   SpecAccess      one worker; login and validate_access_token while an  *)
(*                   account is deactivated, activated or deleted          *)
(*   SpecFault       one worker; logins while Redis, the database and the  *)
(*                   signer fail and recover                               *)
(*   SpecOutcome     one worker; logins while the database and the signer  *)
(*                   fail and recover and the account is deactivated       *)
(*   SpecStoreFault  one worker; logins and refreshes within one second    *)
(*                   while the database fails and recovers                 *)
(*   SpecRegister    one worker; registrations                             *)
(*   SpecResponse    one worker; a registration, logins and refreshes that *)
(*                   return token responses                                *)
(*   SpecJwt         one worker; tokens generated and validated directly   *)
(*   SpecRepo        one worker; logins, revoke_refresh_token called       *)
(*                   directly, the clock and the expiry sweep              *)
(*   SpecKeys        two workers; tokens generated and the JWKS document   *)
(*                   fetched                                               *)
(*   SpecDevice      one worker; logins from two devices and refreshes     *)
(*   SpecReactivate  one worker; at most two sessions, refreshed while the *)
(*                   account is deactivated, activated or deleted          *)
(*   SpecRetry       two workers; failing logins of one identifier, the    *)
(*                   next never a full window after the last               *)
(*   SpecGate        the limiter's methods for one identifier and the two  *)
(*                   accounts, with Reconfigure                            *)
(*   SpecRevoked     one worker; logins, refreshes, logouts and            *)
(*                   validate_access_token                                 *)
(*   SpecChain       one worker; one login from each device, refreshes and *)
(*                   logouts                                               *)
(***************************************************************************)
GoodPassword == "S3cret!"
Device == "phone"

SessionStep(p) ==
    \/ \E ip \in Ips : LoginCheck(p, ip, "alice", GoodPassword, Device)
    \/ LoginLookup(p)
    \/ LoginClear(p)
    \/ LoginCreate(p)
    \/ \E t \in Presentable : RefreshValidate(p, t)
    \/ RefreshLookup(p)
    \/ RefreshUser(p)
    \/ RefreshRevoke(p)
    \/ RefreshCreate(p)
    \/ \E t \in Presentable : LogoutValidate(p, t)
    \/ LogoutRevoke(p)
    \/ Return(p)

Next ==
    \/ Tick
    \/ Sweep
    \/ SessionStep("w1")

Spec == Init /\ [][Next]_vars

\* login and validate_access_token compare no DateTime column: one value of
\* naive is enough
InitAware == Init /\ ~naive

LoginStep(p) ==
    \/ \E ip \in Ips, x \in {"alice", "mallory"}, pw \in Passwords :
          LoginCheck(p, ip, x, pw, None)
    \/ LoginLookup(p)
    \/ LoginRecord(p)
    \/ LoginExcept(p)
    \/ LoginClear(p)
    \/ LoginCreate(p)
    \/ Return(p)

NextLogin ==
    \/ Tick
    \/ SetActive("u1")
    \/ LoginStep("w1")

SpecLogin == InitAware /\ [][NextLogin]_vars

NextConcurrent == \E p \in Procs : SessionStep(p)

AccountStep(p) ==
    \/ \E ip \in Ips : LoginCheck(p, ip, "alice", GoodPassword, Device)
    \/ LoginLookup(p)
    \/ LoginRecord(p)
    \/ LoginExcept(p)
    \/ LoginClear(p)
    \/ LoginCreate(p)
    \/ \E t \in Presentable : RefreshValidate(p, t)
    \/ RefreshLookup(p)
    \/ RefreshUser(p)
    \/ RefreshRevoke(p)
    \/ RefreshCreate(p)
    \/ Return(p)

NextAccount ==
    \/ Tick
    \/ SetActive("u1")
    \/ RemoveUser("u1")
    \/ AccountStep("w1")

SpecAccount == Init /\ [][NextAccount]_vars

AccessStep(p) ==
    \/ \E ip \in Ips : LoginCheck(p, ip, "alice", GoodPassword, Device)
    \/ LoginLookup(p)
    \/ LoginRecord(p)
    \/ LoginExcept(p)
    \/ LoginClear(p)
    \/ LoginCreate(p)
    \/ \E t \in Presentable : AccessValidate(p, t)
    \/ AccessUser(p)
    \/ Return(p)

NextAccess ==
    \/ Tick
    \/ SetActive("u1")
    \/ RemoveUser("u1")
    \/ AccessStep("w1")

SpecAccess == InitAware /\ [][NextAccess]_vars

\* Redis, the database or the token signer starts or stops failing
Components == {"redis", "db", "jwt"}

Fail(c) ==
    /\ c \notin down
    /\ down' = down \cup {c}
    /\ UNCHANGED <<naive, now, limiterVars, storeVars, procVars>>

Recover(c) ==
    /\ c \in down
    /\ down' = down \ {c}
    /\ UNCHANGED <<naive, now, limiterVars, storeVars, procVars>>

FaultStep(p) ==
    \/ \E ip \in Ips, pw \in Passwords : LoginCheck(p, ip, "alice", pw, None)
    \/ LoginLookup(p)
    \/ LoginRecord(p)
    \/ LoginExcept(p)
    \/ LoginClear(p)
    \/ LoginCreate(p)
    \/ Return(p)

NextFault ==
    \/ Tick
    \/ \E c \in Components : Fail(c)
    \/ \E c \in Components : Recover(c)
    \/ FaultStep("w1")

SpecFault == InitAware /\ [][NextFault]_vars

\* logins of alice that end in every way login_user can end while Redis
\* answers: the database and the signer fail and recover, and the account is
\* deactivated and activated
Unexpected == {"db", "jwt"}

NextOutcome ==
    \/ Tick
    \/ SetActive("u1")
    \/ \E c \in Unexpected : Fail(c)
    \/ \E c \in Unexpected : Recover(c)
    \/ FaultStep("w1")

SpecOutcome == InitAware /\ [][NextOutcome]_vars

StoreFaultStep(p) ==
    \/ \E ip \in Ips : LoginCheck(p, ip, "alice", GoodPassword, Device)
    \/ LoginLookup(p)
    \/ LoginExcept(p)
    \/ LoginClear(p)
    \/ LoginCreate(p)
    \/ \E t \in Presentable : RefreshValidate(p, t)
    \/ RefreshLookup(p)
    \/ RefreshUser(p)
    \/ RefreshRevoke(p)
    \/ RefreshCreate(p)
    \/ Return(p)

\* the clock stands still: no step of these flows under a failing database
\* depends on the time that has passed
NextStoreFault ==
    \/ Fail("db")
    \/ Recover("db")
    \/ StoreFaultStep("w1")

\* on a naive expires_at no refresh gets as far as the writes
SpecStoreFault == InitAware /\ [][NextStoreFault]_vars

RegisterStep(p) ==
    \/ \E email \in RegEmails, username \in RegUsernames,
          password \in RegPasswords, confirm_password \in RegPasswords :
            RegisterValidate(p, email, username, password, confirm_password)
    \/ RegisterCreateUser(p)
    \/ RegisterTokens(p)
    \/ Return(p)

NextRegister ==
    \/ Tick
    \/ RegisterStep("w1")

SpecRegister == InitAware /\ [][NextRegister]_vars

ResponseStep(p) ==
    \/ RegisterValidate(p, "dan@x.com", "dan", "S3cret!x", "S3cret!x")
    \/ RegisterCreateUser(p)
    \/ RegisterTokens(p)
    \/ \E ip \in Ips : LoginCheck(p, ip, "alice", GoodPassword, Device)
    \/ LoginLookup(p)
    \/ LoginClear(p)
    \/ LoginCreate(p)
    \/ \E t \in Presentable : RefreshValidate(p, t)
    \/ RefreshLookup(p)
    \/ RefreshUser(p)
    \/ RefreshRevoke(p)
    \/ RefreshCreate(p)
    \/ Return(p)

NextResponse ==
    \/ Tick
    \/ ResponseStep("w1")

SpecResponse == Init /\ [][NextResponse]_vars

RepoStep(p) ==
    \/ \E ip \in Ips : LoginCheck(p, ip, "alice", GoodPassword, Device)
    \/ LoginLookup(p)
    \/ LoginClear(p)
    \/ LoginCreate(p)
    \/ \E t \in Presentable : RepoRevoke(p, t)
    \/ Return(p)

NextRepo ==
    \/ Tick
    \/ Sweep
    \/ RepoStep("w1")

SpecRepo == InitAware /\ [][NextRepo]_vars

KeysStep(p) ==
    \/ \E u \in UserIds, ty \in TokenTypes : JwtGenerate(p, u, ty)
    \/ JwtValidate(p, procs[p].token, procs[p].token.type)
    \/ JwksGet(p)
    \/ Return(p)

NextKeys ==
    \/ Tick
    \/ \E p \in Procs : KeysStep(p)

SpecKeys == InitAware /\ [][NextKeys]_vars

JwtStep(p) ==
    \/ \E u \in UserIds, ty \in TokenTypes : JwtGenerate(p, u, ty)
    \/ \E t \in Variants(procs[p].token), ty \in TokenTypes :
          JwtValidate(p, t, ty)
    \/ Return(p)

NextJwt ==
    \/ Tick
    \/ JwtStep("w1")

SpecJwt == InitAware /\ [][NextJwt]_vars

\* logins from either of two devices, and rotations of what they issued
Devices == {"phone", "laptop"}

DeviceStep(p) ==
    \/ \E ip \in Ips, device_info \in Devices :
          LoginCheck(p, ip, "alice", GoodPassword, device_info)
    \/ LoginLookup(p)
    \/ LoginClear(p)
    \/ LoginCreate(p)
    \/ \E t \in Presentable : RefreshValidate(p, t)
    \/ RefreshLookup(p)
    \/ RefreshUser(p)
    \/ RefreshRevoke(p)
    \/ RefreshCreate(p)
    \/ Return(p)

NextDevice ==
    \/ Tick
    \/ DeviceStep("w1")

SpecDevice == InitAware /\ [][NextDevice]_vars

\* requests one at a time; one login from each device, so that the records
\* with one device descriptor are one login's record and its rotations
ChainStep(p) ==
    \/ \E ip \in Ips, device_info \in Devices :
          /\ \A r \in refresh_tokens : r.device_info # device_info
          /\ LoginCheck(p, ip, "alice", GoodPassword, device_info)
    \/ LoginLookup(p)
    \/ LoginClear(p)
    \/ LoginCreate(p)
    \/ \E t \in Presentable : RefreshValidate(p, t)
    \/ RefreshLookup(p)
    \/ RefreshUser(p)
    \/ RefreshRevoke(p)
    \/ RefreshCreate(p)
    \/ \E t \in Presentable : LogoutValidate(p, t)
    \/ LogoutRevoke(p)
    \/ Return(p)

NextChain ==
    \/ Tick
    \/ ChainStep("w1")

SpecChain == InitAware /\ [][NextChain]_vars

\* at most two sessions of alice, refreshed while her account is
\* deactivated, activated again or deleted
ReactivateStep(p) ==
    \/ \E ip \in Ips :
          /\ minted <= 1
          /\ LoginCheck(p, ip, "alice", GoodPassword, Device)
    \/ LoginLookup(p)
    \/ LoginRecord(p)
    \/ LoginExcept(p)
    \/ LoginClear(p)
    \/ LoginCreate(p)
    \/ \E t \in Presentable : RefreshValidate(p, t)
    \/ RefreshLookup(p)
    \/ RefreshUser(p)
    \/ RefreshRevoke(p)
    \/ RefreshCreate(p)
    \/ Return(p)

NextReactivate ==
    \/ Tick
    \/ SetActive("u1")
    \/ RemoveUser("u1")
    \/ ReactivateStep("w1")

SpecReactivate == Init /\ [][NextReactivate]_vars

\* a client that keeps trying to log in with an identifier no user has, and
\* lets no full identifier window pass after an attempt before the next
Retried == "mallory"

RetryStep(p) ==
    \/ \E ip \in Ips : LoginCheck(p, ip, Retried, "wrong", None)
    \/ LoginLookup(p)
    \/ LoginRecord(p)
    \/ LoginExcept(p)
    \/ Return(p)

NextRetry ==
    \/ /\ redis[IdentifierKey(Retried)].z # {}
             => now + 1 < redis[IdentifierKey(Retried)].exp
       /\ Tick
    \/ \E p \in Procs : RetryStep(p)

SpecRetry == InitAware /\ [][NextRetry]_vars

\* sessions of alice that are refreshed and logged out while the access
\* tokens issued are presented
RevokedStep(p) ==
    \/ SessionStep(p)
    \/ \E t \in Presentable : AccessValidate(p, t)
    \/ AccessUser(p)

NextRevoked ==
    \/ Tick
    \/ RevokedStep("w1")

SpecRevoked == InitAware /\ [][NextRevoked]_vars

SpecConcurrent == Init /\ [][NextConcurrent]_vars

(***************************************************************************)
(* Properties of the rate limiter, checked under SpecLimiter and SpecGate. *)
(***************************************************************************)
\* record_attempt calls logged for key k at the seconds lo..hi
CallsIn(k, lo, hi) ==
    SumOver(calls[k], {t \in 0..MaxTime : lo <= t /\ t <= hi})

\* the scope check check_rate_limit makes for key k now
CheckOf(store, k) == CheckSlidingWindow(store, k, now, LimitOf(k), WindowOf(k))

\* C6: for every scope, once max+1 record_attempt calls for a key lie within
\* the window the check for that key raises RateLimitExceeded, and once the
\* clock is past the window of the last recorded call the check passes again.
C6_LimitThenRecover ==
    enabled =>
        \A k \in Keys :
            /\ CallsIn(k, now - WindowOf(k) + 1, now) >= LimitOf(k) + 1
                  => CheckOf(redis, k).raised
            /\ CallsIn(k, now - WindowOf(k) + 1, now) = 0
                  => ~CheckOf(redis, k).raised

\* C7: the count compared against the limit is exactly the number of
\* recorded attempts whose timestamp t satisfies now - window <= t <= now.
C7_CountIsAttemptsInWindow ==
    enabled =>
        \A k \in Keys :
            CheckOf(redis, k).count = CallsIn(k, now - WindowOf(k), now)

\* C8: clear_user_rate_limits(account) empties the account key of that
\* account and no other key, and the account scope then passes its check.
C8_ClearResetsOnlyAccount ==
    \A u \in UserIds :
        LET cleared == ClearUserRateLimits(redis, u)
        IN  /\ cleared[AccountKey(u)] = EmptyKey
            /\ \A k \in Keys \ {AccountKey(u)} : cleared[k] = redis[k]
            /\ \A ip \in Ips, x \in Identifiers \cup {None} :
                  CheckRateLimit(cleared, ip, x, u).error # "account"

\* a state in which clearing u1 matters: its account scope is at the limit,
\* and the ip, an identifier and the other account hold entries of their own
C8_Witness ==
    /\ enabled
    /\ CheckOf(redis, AccountKey("u1")).raised
    /\ \E ip \in Ips : redis[IpKey(ip)].z # {}
    /\ \E x \in Identifiers : redis[IdentifierKey(x)].z # {}
    /\ redis[AccountKey("u2")].z # {}

\* C9 as claimed: while the limiter is disabled no limiter operation changes
\* the stored counters.
C9_DisabledChangesNothing ==
    [][(~enabled /\ ~enabled' /\ now' = now) => redis' = redis]_vars

\* C9 as amended: while the limiter is disabled check_rate_limit never raises,
\* and check_rate_limit, record_attempt and get_remaining_attempts leave the
\* stored counters unchanged (clear_user_rate_limits is not gated).
C9_DisabledCheckRecordNoOp ==
    ~enabled =>
        /\ \A ip \in Ips, x \in Identifiers \cup {None}, u \in UserIds \cup {None} :
              /\ CheckRateLimit(redis, ip, x, u) = [store |-> redis, error |-> None]
              /\ RecordAttempt(redis, ip, x, u) = redis
        /\ \A k \in Keys : GetRemainingAttempts(redis, k[1], k[2]).store = redis

\* the limiter is disabled over counters that would make an enabled check raise
C9_Witness ==
    /\ ~enabled
    /\ \E k \in Keys : ZCard(redis[k].z) >= LimitOf(k)

(***************************************************************************)
(* Properties of refresh and logout, checked under Spec and, for the       *)
(* interleaving of two requests, under SpecConcurrent.                     *)
(***************************************************************************)
\* the request worker p has finished, with its operation and outcome
Finished(p, op, result) ==
    /\ procs[p].pc = "done"
    /\ procs[p].op = op
    /\ procs[p].result = result

\* C1: once a refresh token has been rotated it is never accepted again:
\* its record stays out of the unrevoked records, and every later refresh
\* request that presents it ends with InvalidRefreshToken.
C1_RotatedTokenRejected ==
    /\ \A t \in rotated : GetRefreshTokenByHash(refresh_tokens, HashToken(t)) = {}
    /\ \A p \in Procs :
          (procs[p].op = "refresh" /\ procs[p].wasRotated) =>
              /\ procs[p].pc \in {"r_lookup", "done"}
              /\ procs[p].pc = "done" => procs[p].result = "INVALID_REFRESH_TOKEN"

\* a rotated token that still passes JWT validation has been presented
\* again and the request has been answered
C1_Witness ==
    \E p \in Procs :
        /\ procs[p].pc = "done"
        /\ procs[p].op = "refresh"
        /\ procs[p].wasRotated
        /\ procs[p].valid

\* C2: two concurrent refresh requests presenting the same valid token do
\* not both succeed.
C2_NoDoubleRotation ==
    \A p, q \in Procs :
        (p # q /\ Finished(p, "refresh", "OK") /\ Finished(q, "refresh", "OK"))
            => procs[p].token # procs[q].token

\* C3: a refresh request issues a pair only if the presented token validated
\* as a refresh token and an unrevoked, unexpired record with its hash was
\* stored when it was looked up; a request whose token fails validation, or
\* whose record is absent, revoked or expired, ends with InvalidRefreshToken.
C3_RefreshOnlyIfStoredValid ==
    [][\A p \in Procs :
          LET good == \E r \in refresh_tokens :
                          /\ r.token_hash = HashToken(procs[p].token)
                          /\ ~r.revoked
                          /\ now <= r.expires_at
          IN  /\ (/\ procs[p].pc = "idle"
                  /\ procs'[p].op = "refresh"
                  /\ ~ValidateToken(procs'[p].token, "refresh"))
                    => /\ procs'[p].pc = "done"
                       /\ procs'[p].result = "INVALID_REFRESH_TOKEN"
              /\ (procs[p].pc = "r_lookup" /\ procs'[p].pc # "r_lookup") =>
                    /\ procs'[p].pc = "r_user" => good
                    /\ ~good => /\ procs'[p].pc = "done"
                                /\ procs'[p].result = "INVALID_REFRESH_TOKEN"
              /\ (procs'[p].op = "refresh" /\ procs'[p].result = "OK") =>
                    /\ procs[p].pc \in {"r_create", "done"}
                    /\ procs'[p].valid
                    /\ \E r \in procs'[p].stored :
                          /\ r.token_hash = HashToken(procs'[p].token)
                          /\ ~r.revoked
      ]_vars

\* C4: when logout returns, no unrevoked record of the presented token is
\* left, whether or not the token passed validation, and a later refresh
\* request that presents a logged-out token ends with InvalidRefreshToken.
C4_LogoutRevokes ==
    \A p \in Procs :
        /\ (procs[p].op = "logout" /\ procs[p].pc = "done") =>
              /\ procs[p].result = "OK"
              /\ GetRefreshTokenByHash(refresh_tokens, HashToken(procs[p].token)) = {}
        /\ (procs[p].op = "refresh" /\ procs[p].wasLoggedOut) =>
              /\ procs[p].pc \in {"r_lookup", "done"}
              /\ procs[p].pc = "done" => procs[p].result = "INVALID_REFRESH_TOKEN"

\* logout has been answered for a token that failed validation while its
\* record was stored, and that record is now revoked
C4_Witness ==
    \E p \in Procs :
        /\ Finished(p, "logout", "OK")
        /\ ~procs[p].valid
        /\ \E r \in refresh_tokens :
              r.token_hash = HashToken(procs[p].token) /\ r.revoked

\* C5: after a successful login the user has at most max_sessions_per_user
\* active (unrevoked, unexpired) refresh-token records.
C5_SessionLimit ==
    \A p \in Procs :
        Finished(p, "login", "OK") =>
            Cardinality(ActiveTokens(refresh_tokens, procs[p].user_id)) <= MaxSessions

(***************************************************************************)
(* Properties of login's use of the limiter, checked under SpecLogin.      *)
(***************************************************************************)
\* C10: a login that resolves an existing account whose account scope has
\* reached its limit ends with RateLimitExceeded.
C10_AccountScopeChecked ==
    [][\A p \in Procs :
          (/\ procs[p].pc = "l_lookup"
           /\ procs'[p].pc # "l_lookup"
           /\ procs'[p].user # {}
           /\ enabled
           /\ CheckOf(redis, AccountKey(procs'[p].user_id)).raised)
              => procs'[p].result = "RATE_LIMIT_EXCEEDED"
      ]_vars

\* k holds an entry for the current second
RecordedNow(store, k) == \E e \in store[k].z : e.score = now

\* C11: a login with a wrong password ends with InvalidCredentials after
\* record_attempt has written the ip and identifier keys, and what the
\* caller sees (status, code, message) is the one InvalidCredentials
\* response, the same whether or not the identifier matched a user.
C11_WrongPasswordIndistinct ==
    [][\A p \in Procs :
          /\ (/\ procs[p].pc = "l_lookup"
              /\ procs'[p].pc # "l_lookup"
              /\ \E u \in GetUserByIdentifier(users, procs[p].identifier) :
                    u.is_active /\ procs[p].password # GoodPassword)
                => /\ procs'[p].pc = "l_record"
                   /\ procs'[p].result = "INVALID_CREDENTIALS"
          /\ (/\ procs[p].pc = "l_record"
              /\ procs'[p].pc # "l_record"
              /\ procs[p].result = "INVALID_CREDENTIALS")
                => /\ procs'[p].pc = "done"
                   /\ enabled => /\ RecordedNow(redis', IpKey(procs[p].ip))
                                 /\ RecordedNow(redis',
                                                IdentifierKey(procs[p].identifier))
                   /\ HandleAuthError(procs'[p].result, procs'[p].message)
                        = [code |-> "INVALID_CREDENTIALS", status |-> 401,
                           message |-> "Invalid email/username or password"]
      ]_vars

\* a wrong password for an existing account has been answered, the attempt
\* being on record
C11_Witness ==
    \E p \in Procs :
        /\ Finished(p, "login", "INVALID_CREDENTIALS")
        /\ procs[p].user # {}
        /\ procs[p].password # GoodPassword
        /\ RecordedNow(redis, IdentifierKey(procs[p].identifier))

\* C12: a login that ends with InvalidCredentials has performed a password
\* verification, a dummy one when the identifier matched no user.
C12_VerifyBeforeInvalidCredentials ==
    \A p \in Procs :
        (procs[p].op = "login" /\ procs[p].result = "INVALID_CREDENTIALS")
            => procs[p].verified

\* C14: a login for an existing, inactive account ends with AccountInactive
\* without a password verification, record_attempt writes the current second
\* to the ip, identifier and account keys and adds at most one entry to each,
\* and the request issues no token and creates no refresh-token record.
C14_InactiveAccount ==
    [][\A p \in Procs :
          /\ (/\ procs[p].pc = "l_lookup"
              /\ procs'[p].pc # "l_lookup"
              /\ \E u \in GetUserByIdentifier(users, procs[p].identifier) :
                    ~u.is_active)
                => /\ procs'[p].pc = "l_record"
                   /\ procs'[p].result = "ACCOUNT_INACTIVE"
          /\ (/\ procs[p].pc = "l_record"
              /\ procs'[p].pc # "l_record"
              /\ procs[p].result = "ACCOUNT_INACTIVE")
                => /\ procs'[p].pc = "done"
                   /\ procs'[p].result = "ACCOUNT_INACTIVE"
                   /\ enabled =>
                        \A k \in {IpKey(procs[p].ip),
                                  IdentifierKey(procs[p].identifier),
                                  AccountKey(procs[p].user_id)} :
                            /\ RecordedNow(redis', k)
                            /\ ZCard(redis'[k].z) <= ZCard(redis[k].z) + 1
          /\ procs'[p].result = "ACCOUNT_INACTIVE"
                => /\ ~procs'[p].verified
                   /\ procs'[p].pair = {}
                   /\ refresh_tokens' = refresh_tokens
                   /\ issued' = issued
      ]_vars

\* a login for an inactive account has been answered and its attempt is on
\* record under the account
C14_Witness ==
    \E p \in Procs :
        /\ Finished(p, "login", "ACCOUNT_INACTIVE")
        /\ procs[p].user_id # None
        /\ RecordedNow(redis, AccountKey(procs[p].user_id))

\* C15: a successful login adds exactly one refresh-token record: unrevoked,
\* owned by the user, holding the hash of the returned refresh token, expiring
\* at now + refresh TTL, with the supplied device descriptor; the returned
\* refresh token validates as type refresh and differs from the access
\* token; and a refresh_tokens call that presents it right away finds the
\* record acceptable and goes on to rotate it.
C15_LoginPersistsUsableRecord ==
    [][\A p \in Procs :
          /\ (procs[p].pc = "l_create" /\ procs'[p].result = "OK") =>
                \E pr \in procs'[p].pair :
                    /\ refresh_tokens \subseteq refresh_tokens'
                    /\ \E r \in refresh_tokens' :
                          /\ refresh_tokens' \ refresh_tokens = {r}
                          /\ r.user_id = procs[p].user_id
                          /\ r.token_hash = HashToken(pr.refresh_token)
                          /\ r.token_hash # pr.refresh_token
                          /\ r.expires_at = now + RefreshTokenTtl
                          /\ r.device_info = procs[p].device
                          /\ ~r.revoked
                    /\ ValidateToken(pr.refresh_token, "refresh")
                    /\ pr.refresh_token # pr.access_token
          /\ (/\ procs[p].pc = "r_lookup"
              /\ procs'[p].pc # "r_lookup"
              /\ \E r \in refresh_tokens :
                    /\ r.token_hash = HashToken(procs[p].token)
                    /\ ~r.revoked
                    /\ r.expires_at = now + RefreshTokenTtl)
                => procs'[p].pc = "r_user"
      ]_vars

(***************************************************************************)
(* Properties that depend on the state of the account, checked under       *)
(* SpecAccount and SpecAccess.                                             *)
(***************************************************************************)
\* the user named by user_id is present and active
PresentAndActive(user_id) == \E u \in users : u.id = user_id /\ u.is_active

\* C16: a refresh request whose token validated and whose stored record is
\* unrevoked and unexpired, made while the token's user is absent or
\* inactive, ends with InvalidRefreshToken and issues no pair.
C16_RefreshNeedsActiveUser ==
    [][\A p \in Procs :
          /\ (/\ procs[p].pc = "r_lookup"
              /\ procs'[p].pc # "r_lookup"
              /\ ~PresentAndActive(procs[p].user_id)
              /\ \E r \in refresh_tokens :
                    /\ r.token_hash = HashToken(procs[p].token)
                    /\ ~r.revoked
                    /\ now <= r.expires_at)
                => \/ procs'[p].pc = "r_user"
                   \/ /\ procs'[p].pc = "done"
                      /\ procs'[p].result = "INVALID_REFRESH_TOKEN"
          /\ (/\ procs[p].pc = "r_user"
              /\ procs'[p].pc # "r_user"
              /\ ~PresentAndActive(procs[p].user_id))
                => /\ procs'[p].pc = "done"
                   /\ procs'[p].result = "INVALID_REFRESH_TOKEN"
                   /\ procs'[p].pair = {}
                   /\ issued' = issued
                   /\ refresh_tokens' = refresh_tokens
      ]_vars

\* C20: validate_access_token returns the claims only for a token that
\* validates as type access and whose subject is a present, active user when
\* the user is looked up; in every other case it ends with InvalidCredentials.
C20_AccessNeedsActiveUser ==
    [][\A p \in Procs :
          /\ (procs[p].pc = "idle" /\ procs'[p].op = "access") =>
                IF /\ procs'[p].token.wf
                   /\ procs'[p].token.type = "access"
                   /\ procs'[p].token.sig = PrivateKey
                   /\ procs'[p].token.exp > now
                   /\ procs'[p].token.iss = Issuer
                   /\ procs'[p].token.aud = Audience
                THEN procs'[p].pc = "a_user"
                ELSE /\ procs'[p].pc = "done"
                     /\ procs'[p].result = "INVALID_CREDENTIALS"
          /\ (procs[p].pc = "a_user" /\ procs'[p].pc # "a_user") =>
                /\ procs'[p].pc = "done"
                /\ IF PresentAndActive(procs[p].token.sub)
                   THEN procs'[p].result = "OK"
                   ELSE procs'[p].result = "INVALID_CREDENTIALS"
          /\ (procs'[p].op = "access" /\ procs'[p].result = "OK") =>
                procs[p].pc \in {"a_user", "done"}
      ]_vars

\* an access token that passed validation has been refused because its user
\* was absent or inactive
C20_Witness ==
    \E p \in Procs :
        /\ Finished(p, "access", "INVALID_CREDENTIALS")
        /\ procs[p].valid
        /\ ~PresentAndActive(procs[p].token.sub)

(***************************************************************************)
(* Properties of login under failures, checked under SpecFault.            *)
(***************************************************************************)
\* C13: when an exception that is no AuthError has been raised in the login
\* flow, the handler writes an attempt for the ip and the identifier and the
\* caller then gets the exception that was raised.
C13_UnexpectedErrorRecorded ==
    [][\A p \in Procs :
          (/\ procs[p].pc = "l_except"
           /\ procs'[p].pc # "l_except"
           /\ procs[p].result = "INTERNAL_ERROR"
           /\ enabled)
             => /\ RecordedNow(redis', IpKey(procs[p].ip))
                /\ RecordedNow(redis', IdentifierKey(procs[p].identifier))
                /\ procs'[p].result = procs[p].result
                /\ procs'[p].detail = procs[p].detail
      ]_vars


(***************************************************************************)
(* Properties of the tokens, checked under SpecJwt.                        *)
(***************************************************************************)
\* the audience validate_token asks of a token expected to be of token_type
ExpectedAudience(token_type) ==
    IF token_type = "refresh" THEN Issuer ELSE Audience

\* worker p's step is a call of validate_token
Validates(p) == procs[p].pc = "j_token" /\ procs'[p].pc = "done"

\* C17: a token generated for user u, validated unchanged and unexpired as its
\* own type, yields the claims with sub = u and that type; every token whose
\* type claim differs from the expected type is rejected, whatever its
\* signature, issuer, audience and expiry.
C17_TypeRoundTrip ==
    [][\A p \in Procs :
          Validates(p) =>
             /\ (/\ procs'[p].token = procs[p].token
                 /\ procs'[p].detail = procs[p].token.type
                 /\ now < procs[p].token.exp)
                   => /\ procs'[p].result = "OK"
                      /\ procs'[p].payload # {}
                      /\ \A c \in procs'[p].payload :
                            /\ c.sub = procs[p].user_id
                            /\ c.type = procs'[p].detail
             /\ procs'[p].token.type # procs'[p].detail
                   => /\ procs'[p].result = "INVALID_TOKEN"
                      /\ procs'[p].payload = {}
      ]_vars

\* a token signed by the service, unexpired, with the issuer and the audience
\* the expected type asks for, has been rejected for its type claim alone
C17_Witness ==
    \E p \in Procs :
        /\ Finished(p, "validate", "INVALID_TOKEN")
        /\ procs[p].token.wf
        /\ procs[p].token.type \in TokenTypes \ {procs[p].detail}
        /\ procs[p].token.sig = PrivateKey
        /\ procs[p].token.iss = Issuer
        /\ procs[p].token.aud = ExpectedAudience(procs[p].detail)
        /\ procs[p].token.exp > now

\* C18: a token whose exp lies before the time of the call is rejected by
\* validate_token, for either expected type.
C18_ExpiredRejected ==
    [][\A p \in Procs :
          (Validates(p) /\ procs'[p].token.exp < now)
             => /\ procs'[p].result = "INVALID_TOKEN"
                /\ procs'[p].payload = {}
      ]_vars

\* a token right in signature, issuer, audience and type has been rejected
\* because its exp had passed
C18_Witness ==
    \E p \in Procs :
        /\ Finished(p, "validate", "INVALID_TOKEN")
        /\ procs[p].token.wf
        /\ procs[p].token.type = procs[p].detail
        /\ procs[p].token.sig = PrivateKey
        /\ procs[p].token.iss = Issuer
        /\ procs[p].token.aud = ExpectedAudience(procs[p].detail)
        /\ procs[p].token.exp < now

\* C19: validate_token returns a payload only for a token signed by the
\* service's key whose issuer is the configured issuer and whose audience is
\* the issuer when a refresh token is expected and the configured audience
\* when an access token is expected.
C19_SignatureIssuerAudience ==
    [][\A p \in Procs :
          (Validates(p) /\ procs'[p].result = "OK")
             => /\ procs'[p].token.sig = PrivateKey
                /\ procs'[p].token.iss = Issuer
                /\ procs'[p].token.aud = ExpectedAudience(procs'[p].detail)
      ]_vars

\* a token right in signature, issuer, type and expiry has been rejected for
\* carrying the audience of the other type
C19_Witness ==
    \E p \in Procs :
        /\ Finished(p, "validate", "INVALID_TOKEN")
        /\ procs[p].token.wf
        /\ procs[p].token.type = procs[p].detail
        /\ procs[p].token.sig = PrivateKey
        /\ procs[p].token.iss = Issuer
        /\ procs[p].token.exp > now
        /\ procs[p].token.aud \in {Issuer, Audience}
        /\ procs[p].token.aud # ExpectedAudience(procs[p].detail)


(***************************************************************************)
(* Properties of registration, checked under SpecRegister.                 *)
(***************************************************************************)
\* the characters of a occur in b as a run, letter case set aside
OccursIn(a, b) ==
    \E i \in 0 .. Len(b) - Len(a) :
        \A k \in 1 .. Len(a) : LowerChar(a[k]) = LowerChar(b[i + k])

\* a row holds the email (stored in lower case) or the username
Taken(email, username) ==
    \E u \in users : u.email = Lower(email) \/ u.username = username

\* C21: a registration whose confirmation differs from the password, or
\* whose password holds the username or the email's local part in any letter
\* case, ends with VALIDATION_FAILED; one whose email or username is taken
\* ends with USER_ALREADY_EXISTS; in both cases no row is created and no
\* tokens are returned; a registration that gets past both leaves a row with
\* its email and username, so that the same request repeated is a conflict.
C21_RegisterFailures ==
    [][\A p \in Procs :
          /\ (procs[p].pc = "idle" /\ procs'[p].op = "register") =>
                /\ users' = users
                /\ issued' = issued
                /\ (\/ procs'[p].password # procs'[p].confirm_password
                    \/ OccursIn(Chars(procs'[p].identifier),
                                Chars(procs'[p].password))
                    \/ OccursIn(LocalPart(Chars(procs'[p].email)),
                                Chars(procs'[p].password)))
                      => /\ procs'[p].pc = "done"
                         /\ procs'[p].result = "VALIDATION_FAILED"
                         /\ procs'[p].pair = {}
          /\ (/\ procs[p].pc = "g_create"
              /\ procs'[p].pc # "g_create"
              /\ Taken(procs[p].email, procs[p].identifier))
                => /\ procs'[p].pc = "done"
                   /\ procs'[p].result = "USER_ALREADY_EXISTS"
                   /\ procs'[p].pair = {}
                   /\ users' = users
                   /\ issued' = issued
          /\ (procs[p].pc = "g_create" /\ procs'[p].pc = "g_tokens")
                => /\ ~Taken(procs[p].email, procs[p].identifier)
                   /\ \E u \in users' \ users :
                         /\ u.email = Lower(procs[p].email)
                         /\ u.username = procs[p].identifier
          /\ (procs'[p].op = "register" /\ procs'[p].result = "OK")
                => \E u \in users : /\ u.email = Lower(procs'[p].email)
                                    /\ u.username = procs'[p].identifier
      ]_vars

\* a registration has been refused as a conflict with the row that an
\* earlier registration of the same email, username and password created
C21_Witness ==
    \E p \in Procs :
        /\ Finished(p, "register", "USER_ALREADY_EXISTS")
        /\ \E u \in users :
              /\ u.id \in NewUserIds
              /\ u.email = Lower(procs[p].email)
              /\ u.username = procs[p].identifier
              /\ u.password_hash = HashPassword(procs[p].password)


(***************************************************************************)
(* Properties of the token responses, checked under SpecResponse.          *)
(***************************************************************************)
\* C22: the token response of every successful register, login and refresh
\* has expires_in equal to sixty times the access TTL in minutes, which is
\* sixty times the minutes the access token it carries lives.
C22_ExpiresIn ==
    \A p \in Procs :
        (/\ procs[p].pc = "done"
         /\ procs[p].op \in {"register", "login", "refresh"}
         /\ procs[p].result = "OK")
           => /\ procs[p].pair # {}
              /\ \A r \in procs[p].pair :
                    /\ r.expires_in = 60 * AccessTokenTtl
                    /\ r.expires_in =
                          60 * (r.access_token.exp - r.access_token.iat)

\* a register, a login and a refresh have each returned a token response
C22_Witness ==
    /\ Finished("w1", "refresh", "OK")
    /\ \E t \in issued : t.sub \in NewUserIds
    /\ \E r \in refresh_tokens : r.user_id \in UserIds


(***************************************************************************)
(* Properties of the responses to failures, checked under SpecFault.       *)
(***************************************************************************)
\* C23: the response to a request that failed with an exception that is no
\* AuthError has the code INTERNAL_ERROR and carries nothing of the
\* exception's text.
C23_InternalErrorOpaque ==
    \A p \in Procs :
        (procs[p].pc = "done" /\ procs[p].result = "INTERNAL_ERROR")
           => LET body == InternalErrorResponse(procs[p].op, procs[p].detail)
              IN  /\ body.code = "INTERNAL_ERROR"
                  /\ body.details = {}


(***************************************************************************)
(* Properties of the flows under a failing store, checked under            *)
(* SpecStoreFault.                                                         *)
(***************************************************************************)
\* the record of token is in rows
Persisted(rows, token) == \E r \in rows : r.token_hash = HashToken(token)

\* C24: when the database fails where login or refresh stores the new
\* refresh-token record, the call ends with an error and returns no pair,
\* nothing is written, and in refresh the presented token's record stays
\* revoked; a pair is returned only together with its stored record.
C24_StoreFailureSurfaces ==
    [][\A p \in Procs :
          /\ (/\ procs[p].pc \in {"l_create", "r_create"}
              /\ procs'[p].pc # procs[p].pc
              /\ "db" \in down)
                => /\ procs'[p].result = "INTERNAL_ERROR"
                   /\ procs'[p].pair = {}
                   /\ issued' = issued
                   /\ refresh_tokens' = refresh_tokens
          /\ (procs[p].pc = "r_create" /\ procs'[p].pc # "r_create")
                => \A r \in refresh_tokens' :
                      r.token_hash = HashToken(procs[p].token) => r.revoked
          /\ (procs[p].pc = "l_except" /\ procs'[p].pc = "done")
                => /\ procs'[p].result # "OK"
                   /\ procs'[p].pair = {}
          /\ (/\ procs'[p].pc = "done"
              /\ procs[p].pc # "done"
              /\ procs'[p].op \in {"login", "refresh"})
                => /\ procs'[p].pair # {} <=> procs'[p].result = "OK"
                   /\ \A r \in procs'[p].pair :
                         Persisted(refresh_tokens', r.refresh_token)
      ]_vars

\* a refresh has failed on the database after it had revoked the record of
\* the token presented: the record is revoked and no pair came back
C24_Witness ==
    \E p \in Procs :
        /\ Finished(p, "refresh", "INTERNAL_ERROR")
        /\ procs[p].detail = "DatabaseError"
        /\ procs[p].pair = {}
        /\ procs[p].token \notin rotated
        /\ \E r \in refresh_tokens :
              r.token_hash = HashToken(procs[p].token) /\ r.revoked


(***************************************************************************)
(* Properties of the key id, checked under SpecKeys.                       *)
(***************************************************************************)
\* worker p holds the JWKS document it has just fetched
HasJwks(p) == procs[p].pc = "done" /\ procs[p].op = "jwks"

\* C25: every JWKS document has exactly one key; two documents fetched at
\* different times are equal; the kid in the header of a generated access
\* or refresh token is the kid of that key.
C25_KeyIdStable ==
    \A p \in Procs :
        HasJwks(p) =>
           \A doc \in procs[p].payload :
              /\ Len(doc.keys) = 1
              /\ doc = GetJwks
              /\ \A q \in Procs :
                    /\ HasJwks(q) => procs[q].payload = procs[p].payload
                    /\ procs[q].op \in {"generate", "validate"}
                          => procs[q].token.kid = doc.keys[1].kid

\* a JWKS document fetched at one time is held while a token generated at a
\* later time is held
C25_Witness ==
    \E p, q \in Procs :
        /\ HasJwks(p)
        /\ procs[q].op = "generate"
        /\ procs[q].token.type = "refresh"
        /\ procs[q].token.iat > 0
        /\ now > procs[q].token.iat


(***************************************************************************)
(* Properties of the refresh-token repository, checked under SpecRepo.     *)
(***************************************************************************)
\* C26: revoke_refresh_token returns true exactly when a row with the hash
\* exists, revoked or not; after it every row with the hash is revoked and
\* every other row is as before; a second call with the same hash returns
\* the same value and changes nothing, and a call on a row that is already
\* revoked changes nothing.
C26_RevokeIdempotent ==
    [][\A p \in Procs :
          (procs[p].pc = "idle" /\ procs'[p].op = "revoke") =>
             LET h == HashToken(procs'[p].token)
                 before == {r \in refresh_tokens : r.token_hash = h}
                 after == {r \in refresh_tokens' : r.token_hash = h}
             IN  /\ procs'[p].result = "OK"
                 /\ procs'[p].valid = (before # {})
                 /\ \A r \in after : r.revoked
                 /\ refresh_tokens' \ after = refresh_tokens \ before
                 /\ (\A r \in before : r.revoked)
                       => refresh_tokens' = refresh_tokens
                 /\ \A again \in RevokeRefreshToken(refresh_tokens', h) :
                       /\ again.rows = refresh_tokens'
                       /\ again.returned = procs'[p].valid
      ]_vars

\* revoke_refresh_token has returned true for a row that was revoked already
C26_Witness ==
    \E p \in Procs :
        /\ Finished(p, "revoke", "OK")
        /\ procs[p].valid
        /\ \E r \in procs[p].stored : r.revoked /\ r \in refresh_tokens


(***************************************************************************)
(* Properties of the order and the frame of the limiter's calls, checked   *)
(* under SpecScopes.                                                       *)
(***************************************************************************)
\* the entries of key k that lie inside the scope's window now
InWindow(k) == {e \in redis[k].z : e.score > now - WindowOf(k)}

\* key k with its stale entries purged, and whether its scope is at its limit
PurgedKey(k) == Normalise([redis[k] EXCEPT !.z = InWindow(k)])
AtLimit(k) == Cardinality(InWindow(k)) >= LimitOf(k)

\* the keys of the scopes a call names, in the order ip, identifier, account
ScopeOrder(ip_address, identifier, user_id) ==
    <<IpKey(ip_address)>>
        \o (IF identifier # None THEN <<IdentifierKey(identifier)>> ELSE <<>>)
        \o (IF user_id # None THEN <<AccountKey(user_id)>> ELSE <<>>)

\* C27: check_rate_limit raises with the message of the first scope, in the
\* order ip, identifier, account, that is at its limit; the scopes up to that
\* one are purged, the scopes after it are left as they are, and with no
\* scope at its limit nothing is raised.
C27_FirstViolatedScope ==
    enabled =>
      \A ip \in Ips, x \in LimiterIdentifiers, u \in LimiterUserIds :
        LET r == CheckRateLimit(redis, ip, x, u)
            scopes == ScopeOrder(ip, x, u)
            violated == {i \in 1 .. Len(scopes) : AtLimit(scopes[i])}
            last == IF violated = {} THEN Len(scopes)
                    ELSE CHOOSE i \in violated : \A j \in violated : i <= j
        IN  /\ r.error = IF violated = {} THEN None ELSE scopes[last][1]
            /\ \A i \in 1 .. Len(scopes) :
                  r.store[scopes[i]] =
                     IF i <= last THEN PurgedKey(scopes[i]) ELSE redis[scopes[i]]
            /\ \A k \in Keys :
                  (\A i \in 1 .. Len(scopes) : scopes[i] # k)
                     => r.store[k] = redis[k]

\* the ip and the identifier of a call are both at their limit while its
\* account key holds a stale entry, which the check leaves in place
C27_Witness ==
    /\ enabled
    /\ \E ip \in Ips, x \in LimiterIdentifiers \ {None}, u \in UserIds :
          /\ AtLimit(IpKey(ip))
          /\ AtLimit(IdentifierKey(x))
          /\ PurgedKey(AccountKey(u)) # redis[AccountKey(u)]
          /\ CheckRateLimit(redis, ip, x, u).error = "ip"
          /\ CheckRateLimit(redis, ip, x, u).store[AccountKey(u)]
                = redis[AccountKey(u)]


\* C28: record_attempt leaves, under the key of every scope that is not
\* null, the entries inside the scope's window together with an entry for
\* the current second, and sets the key to expire one window length from
\* now; every other key is left as it is.
C28_RecordFrame ==
    enabled =>
      \A ip \in Ips, x \in LimiterIdentifiers, u \in LimiterUserIds :
        LET s == RecordAttempt(redis, ip, x, u)
            scopes == ScopeOrder(ip, x, u)
            named == {scopes[i] : i \in 1 .. Len(scopes)}
        IN  /\ \A k \in named :
                  /\ s[k].z = {e \in InWindow(k) : e.member # now}
                                 \cup {[member |-> now, score |-> now]}
                  /\ s[k].exp = now + WindowOf(k)
            /\ \A k \in Keys \ named : s[k] = redis[k]

\* an attempt has just been recorded for an ip with no identifier: the ip's
\* key has the entry and the new expiry, a stale entry is gone from it, and
\* the identifier's key still holds what it held
C28_Witness ==
    /\ enabled
    /\ \E ip \in Ips, x \in LimiterIdentifiers \ {None} :
          /\ RecordedNow(redis, IpKey(ip))
          /\ redis[IpKey(ip)].exp = now + PerIpWindow
          /\ calls[IpKey(ip)][now] > 0
          /\ \E t \in 0 .. MaxTime :
                /\ t <= now - PerIpWindow
                /\ calls[IpKey(ip)][t] > 0
          /\ redis[IpKey(ip)] = PurgedKey(IpKey(ip))
          /\ redis[IdentifierKey(x)].z # {}
          /\ ~RecordedNow(redis, IdentifierKey(x))


(***************************************************************************)
(* Properties of the order of login's steps, checked under SpecLogin.      *)
(***************************************************************************)
\* C29: a login whose check_rate_limit raises goes from the check to the
\* handler, and up to its end has looked up no user, verified no password,
\* issued no token and stored no refresh-token record.
C29_RateLimitFirst ==
    [][\A p \in Procs :
          /\ (/\ procs[p].pc = "idle"
              /\ procs'[p].op = "login"
              /\ CheckRateLimit(redis, procs'[p].ip, procs'[p].identifier,
                                None).error # None)
                => /\ procs'[p].pc = "l_except"
                   /\ procs'[p].result = "RATE_LIMIT_EXCEEDED"
          /\ (/\ procs'[p].op = "login"
              /\ procs'[p].result = "RATE_LIMIT_EXCEEDED")
                => /\ procs[p].pc \in {"idle", "l_except", "done"}
                   /\ procs'[p].user = {}
                   /\ ~procs'[p].verified
                   /\ procs'[p].pair = {}
                   /\ procs'[p].pc # procs[p].pc
                         => /\ issued' = issued
                            /\ refresh_tokens' = refresh_tokens
                            /\ minted' = minted
      ]_vars

\* a login of an active user with the right password has ended with
\* RateLimitExceeded, with no user looked up
C29_Witness ==
    \E p \in Procs :
        /\ Finished(p, "login", "RATE_LIMIT_EXCEEDED")
        /\ procs[p].user = {}
        /\ \E u \in users :
              /\ u.username = procs[p].identifier
              /\ u.is_active
              /\ VerifyPassword(procs[p].password, u.password_hash)


(***************************************************************************)
(* Properties of the device descriptor of refresh-token records, checked   *)
(* under SpecDevice.                                                       *)
(***************************************************************************)
\* the records of the rows that carry the hash of the token
RecordsOf(rows, token) == {r \in rows : r.token_hash = HashToken(token)}

\* the rows of the second set whose hash no row of the first carries
CreatedRecords(rows, after) ==
    {r \in after : \A q \in rows : q.token_hash # r.token_hash}

\* C30: a rotation stores exactly one new record, for the refresh token it
\* returns, with the device descriptor of the record of the token presented;
\* a login stores its record with the descriptor supplied to it; and no step
\* changes the descriptor of a stored record.  Hence every record of a chain
\* of rotations has the descriptor of the login that started the chain.
C30_DeviceCarried ==
    [][/\ \A p \in Procs :
             (/\ procs[p].pc = "r_create"
              /\ procs'[p].result = "OK")
                => /\ RecordsOf(refresh_tokens, procs[p].token) # {}
                   /\ \E new \in refresh_tokens' :
                         CreatedRecords(refresh_tokens, refresh_tokens') = {new}
                   /\ \A new \in CreatedRecords(refresh_tokens, refresh_tokens'),
                         pair \in procs'[p].pair,
                         old \in RecordsOf(refresh_tokens, procs[p].token) :
                           /\ new.token_hash = HashToken(pair.refresh_token)
                           /\ new.device_info = old.device_info
       /\ \A p \in Procs :
             (/\ procs[p].pc = "l_create"
              /\ procs'[p].result = "OK")
                => /\ \E new \in refresh_tokens' :
                         CreatedRecords(refresh_tokens, refresh_tokens') = {new}
                   /\ \A new \in CreatedRecords(refresh_tokens, refresh_tokens'),
                         pair \in procs'[p].pair :
                           /\ new.token_hash = HashToken(pair.refresh_token)
                           /\ new.device_info = procs[p].device
       /\ (\A p \in Procs :
              ~(procs[p].pc \in {"r_create", "l_create"}
                  /\ procs'[p].result = "OK"))
             => CreatedRecords(refresh_tokens, refresh_tokens') = {}
       /\ \A q \in refresh_tokens, r \in refresh_tokens' :
             r.token_hash = q.token_hash => r.device_info = q.device_info
      ]_vars

\* two tokens have been rotated and the records of both, revoked, and an
\* unrevoked third record all carry the descriptor "laptop"
C30_Witness ==
    /\ Cardinality(rotated) >= 2
    /\ \A t \in rotated :
          \E q \in RecordsOf(refresh_tokens, t) :
              q.revoked /\ q.device_info = "laptop"
    /\ \E r \in refresh_tokens : ~r.revoked /\ r.device_info = "laptop"


(***************************************************************************)
(* Failing logins made one after the other, checked under SpecScopes.      *)
(***************************************************************************)
\* the longest run of logins looked at
MaxBurst == PerIpRequests + PerIdentifierAttempts

\* n logins of an unknown identifier made one at a time within the current
\* second, as login_user calls the limiter: check_rate_limit, then
\* record_attempt(ip_address, identifier), in the not-found branch when the
\* check passed and in the handler when it raised; admitted counts the
\* logins whose check passed
RECURSIVE SerialLogins(_, _, _, _)
SerialLogins(store, ip_address, identifier, n) ==
    IF n = 0 THEN [store |-> store, admitted |-> 0]
    ELSE LET r == CheckRateLimit(store, ip_address, identifier, None)
             recorded == RecordAttempt(r.store, ip_address, identifier, None)
             rest == SerialLogins(recorded, ip_address, identifier, n - 1)
         IN  [store |-> rest.store,
              admitted |-> rest.admitted + (IF r.error = None THEN 1 ELSE 0)]

\* C31: the logins admitted beyond the limit are at most as many as the
\* logins in flight at the same time: of failing logins for one identifier
\* made one at a time, at most the identifier limit plus one are admitted
\* within a window, whatever the store they start from.
C31_OverAdmitBounded ==
    \A ip \in Ips, x \in Identifiers, n \in 0..MaxBurst :
        enabled =>
            SerialLogins(redis, ip, x, n).admitted <= PerIdentifierAttempts + 1


(***************************************************************************)
(* The revoked flag of the stored records, checked under Spec.             *)
(***************************************************************************)
\* the revoked records of the first table are revoked in the second, as far
\* as the second has a record with their hash
KeepsRevoked(rows, after) ==
    \A q \in rows :
        q.revoked => \A r \in after : r.token_hash = q.token_hash => r.revoked

\* C32: no step turns a revoked record into an unrevoked one, and a revoked
\* record leaves the table only when the expiry sweep deletes it, its expiry
\* having passed; nor does revoke_user_tokens, which no step calls, applied
\* to the table for any user.
C32_RevokedMonotonic ==
    [][/\ KeepsRevoked(refresh_tokens, refresh_tokens')
       /\ \A q \in refresh_tokens :
             (/\ q.revoked
              /\ \A r \in refresh_tokens' : r.token_hash # q.token_hash)
                => /\ q.expires_at < now
                   /\ refresh_tokens' = CleanupExpiredTokens(refresh_tokens)
       /\ \A u \in UserIds :
             /\ KeepsRevoked(refresh_tokens,
                             RevokeUserTokens(refresh_tokens, u))
             /\ \A q \in refresh_tokens :
                   \E r \in RevokeUserTokens(refresh_tokens, u) :
                       r.token_hash = q.token_hash
      ]_vars

\* the record of a token that was rotated and then logged out is revoked:
\* revoke_refresh_token has been applied to a revoked record
C32_Witness ==
    \E t \in rotated \cap loggedOut :
        \E r \in RecordsOf(refresh_tokens, t) : r.revoked


(***************************************************************************)
(* Rotation chains, checked under SpecChain, where the records of a chain  *)
(* are the records with the device descriptor of its login.                *)
(***************************************************************************)
Chain(device_info) == {r \in refresh_tokens : r.device_info = device_info}
Usable(rows) == {r \in rows : ~r.revoked}

\* C33: with requests one at a time every chain has at most one unrevoked
\* record; between the revoke step and the create step of a rotation the
\* chain of the token presented has none; and after a rotation the record
\* of the token presented is revoked while that of the new token is not.
C33_OneUsablePerChain ==
    /\ \A d \in Devices : Cardinality(Usable(Chain(d))) <= 1
    /\ \A p \in Procs :
          procs[p].pc = "r_create"
             => \A stored_token \in procs[p].stored :
                    Usable(Chain(stored_token.device_info)) = {}
    /\ \A p \in Procs :
          Finished(p, "refresh", "OK")
             => /\ Usable(RecordsOf(refresh_tokens, procs[p].token)) = {}
                /\ \A stored_token \in procs[p].stored,
                      pair \in procs[p].pair :
                        RecordsOf(refresh_tokens, pair.refresh_token)
                            \subseteq Chain(stored_token.device_info)

\* a second rotation of a chain stands between its revoke step and its
\* create step while the other chain has its usable record
C33_Witness ==
    \E p \in Procs :
        /\ procs[p].pc = "r_create"
        /\ \E stored_token \in procs[p].stored :
              /\ Cardinality(Chain(stored_token.device_info)) >= 2
              /\ \E d \in Devices \ {stored_token.device_info} :
                    Usable(Chain(d)) # {}


(***************************************************************************)
(* Refreshes that fail before their revoke step, checked under             *)
(* SpecReactivate.                                                         *)
(***************************************************************************)
\* the positions of refresh_tokens before its revoke_refresh_token call
BeforeRevoke == {"idle", "r_lookup", "r_user"}

\* C34: the steps of refresh_tokens up to its revoke step write nothing: a
\* call that ends in one of them ends without a pair and leaves the records,
\* the tokens issued and the users as they were, so the record of a token
\* refused for its user's inactivity is still there, unrevoked.
C34_FailedRefreshFrame ==
    [][\A p \in Procs :
          (/\ procs[p].pc \in BeforeRevoke
           /\ procs'[p].pc # procs[p].pc
           /\ procs'[p].op = "refresh")
             => /\ refresh_tokens' = refresh_tokens
                /\ issued' = issued
                /\ minted' = minted
                /\ users' = users
                /\ rotated' = rotated
                /\ procs'[p].pc = "done"
                      => /\ procs'[p].result # "OK"
                         /\ procs'[p].pair = {}
                /\ (/\ procs[p].pc = "r_user"
                    /\ procs'[p].pc = "done")
                      => \A stored_token \in procs[p].stored :
                            stored_token \in refresh_tokens
                               => /\ stored_token \in refresh_tokens'
                                  /\ ~stored_token.revoked
      ]_vars

\* a refresh has been refused because the user is inactive, and the record
\* of its token is stored, unrevoked and unexpired
C34_Witness ==
    \E p \in Procs :
        /\ Finished(p, "refresh", "INVALID_REFRESH_TOKEN")
        /\ procs[p].detail = "User account is inactive"
        /\ \E u \in users : u.id = procs[p].user_id /\ ~u.is_active
        /\ \E r \in RecordsOf(refresh_tokens, procs[p].token) :
              ~r.revoked /\ now <= r.expires_at


(***************************************************************************)
(* Logins refused by the limiter, checked under SpecRetry.                 *)
(***************************************************************************)
\* key k after _record_sliding_window at the current second
Recorded(k) ==
    [z |-> InWindow(k) \cup {[member |-> now, score |-> now]},
     exp |-> now + WindowOf(k)]

\* C35 as stated: while the response of a login refused by the limiter is
\* outstanding and the client lets no window pass between its attempts, a
\* further login of the same identifier from the same address is refused.
C35_NeverReadmitted ==
    [][\A p, q \in Procs :
          (/\ p # q
           /\ Finished(q, "login", "RATE_LIMIT_EXCEEDED")
           /\ procs[p].pc = "idle"
           /\ procs'[p].op = "login"
           /\ procs'[p].identifier = procs[q].identifier
           /\ procs'[p].ip = procs[q].ip)
             => procs'[p].result = "RATE_LIMIT_EXCEEDED"
      ]_vars

\* C35: a login refused by check_rate_limit records an attempt at the
\* current second under its ip and its identifier and under no account; the
\* next login is refused exactly when one of the two scopes still holds as
\* many seconds with an attempt inside its window as its limit, so a client
\* is admitted again once fewer are left, however often it has retried.
C35_RefusedRecorded ==
    [][\A p \in Procs :
          /\ (/\ procs[p].pc = "l_except"
              /\ procs[p].result = "RATE_LIMIT_EXCEEDED"
              /\ procs'[p].pc = "done")
                => /\ procs'[p].result = "RATE_LIMIT_EXCEEDED"
                   /\ \A k \in Keys :
                         redis'[k] =
                            IF k \in {IpKey(procs[p].ip),
                                      IdentifierKey(procs[p].identifier)}
                            THEN Recorded(k) ELSE redis[k]
          /\ (/\ procs[p].pc = "idle"
              /\ procs'[p].op = "login")
                => (procs'[p].result = "RATE_LIMIT_EXCEEDED"
                      <=> \/ AtLimit(IpKey(procs'[p].ip))
                          \/ AtLimit(IdentifierKey(procs'[p].identifier)))
      ]_vars

\* a login has been refused by the limiter and its attempt stands recorded
\* at the current second under its ip and its identifier
C35_Witness ==
    \E p \in Procs :
        /\ Finished(p, "login", "RATE_LIMIT_EXCEEDED")
        /\ \A k \in {IpKey(procs[p].ip), IdentifierKey(procs[p].identifier)} :
              /\ [member |-> now, score |-> now] \in redis[k].z
              /\ redis[k].exp = now + WindowOf(k)


(***************************************************************************)
(* Entries and record_attempt calls, checked under SpecScopes.             *)
(***************************************************************************)
\* the seconds inside the window of key k in which record_attempt was
\* called for it
SecondsRecorded(k) ==
    {t \in 0..MaxTime : now - WindowOf(k) < t /\ t <= now /\ calls[k][t] > 0}

\* C36: the entries of a key are its members str(second): the entries inside
\* the window are one for every second of the window in which record_attempt
\* was called for the key, whatever the number of calls in that second, and
\* a further record_attempt in a second that has its entry adds none.
C36_CountIsDistinctSeconds ==
    enabled =>
        \A k \in Keys :
            /\ Cardinality(InWindow(k)) = Cardinality(SecondsRecorded(k))
            /\ \A e \in InWindow(k) : e.member = e.score
            /\ calls[k][now] > 0
                  => ZCard(RecordSlidingWindow(redis, k, now, WindowOf(k))[k].z)
                        = Cardinality(InWindow(k))

\* a key has fewer entries than record_attempt calls inside its window: two
\* calls were made for it in one second
C36_Witness ==
    \E k \in Keys :
        /\ calls[k][now] >= 2
        /\ Cardinality(InWindow(k)) >= 2
        /\ CallsIn(k, now - WindowOf(k) + 1, now) > Cardinality(InWindow(k))


(***************************************************************************)
(* The limiter calls of one login, checked under SpecOutcome.  A step from *)
(* l_record or from l_except is one call of record_attempt.                *)
(***************************************************************************)
\* worker p takes a step of a login call
LoginMoves(p) == procs'[p] # procs[p] /\ procs'[p].op = "login"

\* the ip and identifier keys of the login worker p is making after the step
SameIpIdentifier(p) ==
    /\ redis'[IpKey(procs'[p].ip)] = redis[IpKey(procs'[p].ip)]
    /\ redis'[IdentifierKey(procs'[p].identifier)]
          = redis[IdentifierKey(procs'[p].identifier)]

\* C37 as stated, for the keys: no step of a login that finds an active user
\* and the right password, and goes on towards its token pair, changes the
\* ip key or the identifier key.
C37_SuccessKeepsKeys ==
    [][\A p \in Procs :
          /\ (/\ LoginMoves(p)
              /\ procs[p].pc = "idle"
              /\ procs'[p].pc = "l_lookup"
              /\ \E u \in users :
                    /\ u.username = procs'[p].identifier
                    /\ u.is_active
                    /\ VerifyPassword(procs'[p].password, u.password_hash))
                => SameIpIdentifier(p)
          /\ (/\ LoginMoves(p)
              /\ procs[p].pc \in {"l_lookup", "l_clear", "l_create"}
              /\ procs'[p].pc \in {"l_clear", "l_create", "done"}
              /\ procs'[p].result \in {None, "OK"})
                => SameIpIdentifier(p)
      ]_vars

\* C37: a login ends in an error only by a step from l_record or l_except;
\* l_record is entered from the lookup only and, unless record_attempt
\* fails, left for the end of the call, so that the handler's record_attempt
\* is reached from the check, the lookup, the clearing and the creation
\* only; a login ends in success only by the step from l_create, which with
\* l_clear and l_lookup lies on no path through l_record or l_except.  The
\* successful login deletes the account key and nothing else, and its check
\* purges the ip and the identifier key of the entries outside their windows
\* and leaves the entries inside them.
C37_RecordOncePerFailure ==
    [][\A p \in Procs :
          LoginMoves(p) =>
             /\ (procs'[p].pc = "done" /\ procs'[p].result # "OK")
                   => procs[p].pc \in {"l_record", "l_except"}
             /\ (procs'[p].pc = "done" /\ procs'[p].result = "OK")
                   => /\ procs[p].pc = "l_create"
                      /\ redis' = redis
             /\ procs'[p].pc = "l_create"
                   => /\ procs[p].pc = "l_clear"
                      /\ \A k \in Keys :
                            redis'[k] = IF k = AccountKey(procs[p].user_id)
                                        THEN EmptyKey ELSE redis[k]
             /\ procs'[p].pc = "l_clear"
                   => procs[p].pc = "l_lookup" /\ redis' = redis
             /\ procs'[p].pc = "l_lookup"
                   => /\ procs[p].pc = "idle"
                      /\ \A k \in Keys :
                            redis'[k] =
                               IF enabled
                                  /\ k \in {IpKey(procs'[p].ip),
                                            IdentifierKey(procs'[p].identifier)}
                               THEN PurgedKey(k) ELSE redis[k]
             /\ procs'[p].pc = "l_record"
                   => procs[p].pc = "l_lookup" /\ redis' = redis
             /\ procs[p].pc = "l_record"
                   => IF LimiterFails
                      THEN procs'[p].pc = "l_except" /\ redis' = redis
                      ELSE /\ procs'[p].pc = "done"
                           /\ redis' = RecordAttempt(redis, procs[p].ip,
                                                      procs[p].identifier,
                                                      procs[p].user_id)
             /\ procs'[p].pc = "l_except"
                   => \/ procs[p].pc \in {"idle", "l_lookup", "l_clear",
                                          "l_create"}
                      \/ procs[p].pc = "l_record" /\ LimiterFails
             /\ procs[p].pc = "l_except"
                   => /\ procs'[p].pc = "done"
                      /\ redis' = IF LimiterFails THEN redis
                                  ELSE RecordAttempt(redis, procs[p].ip,
                                                     procs[p].identifier, None)
      ]_vars

\* a login has succeeded at an address and for an identifier that hold
\* entries of earlier failures, and the account key of its user is gone
C37_Witness ==
    \E p \in Procs :
        /\ Finished(p, "login", "OK")
        /\ redis[IpKey(procs[p].ip)].z # {}
        /\ redis[IdentifierKey(procs[p].identifier)].z # {}
        /\ redis[AccountKey(procs[p].user_id)] = EmptyKey


(***************************************************************************)
(* The refresh token of a registration, checked under SpecResponse, where  *)
(* the user registered never logs in: the refresh tokens with a subject    *)
(* out of NewUserIds are those that register_user returned.                *)
(***************************************************************************)
\* C38: no step of register_user writes a refresh-token record or touches
\* the limiter, and the refresh token it returns validates but has no
\* record; a refresh whose token has no record when it is looked up ends
\* with InvalidRefreshToken and no pair; so every refresh of a token from a
\* registration ends that way, and every token rotated has a record.
C38_RegistrationTokenUseless ==
    [][/\ \A p \in Procs :
             /\ (procs'[p] # procs[p] /\ procs'[p].op = "register")
                   => /\ refresh_tokens' = refresh_tokens
                      /\ limiterVars' = limiterVars
                      /\ \A pair \in procs'[p].pair :
                            /\ ValidateToken(pair.refresh_token, "refresh")
                            /\ pair.refresh_token \in issued'
                            /\ RecordsOf(refresh_tokens',
                                         pair.refresh_token) = {}
             /\ (/\ procs[p].pc = "r_lookup"
                 /\ procs'[p].pc # "r_lookup"
                 /\ RecordsOf(refresh_tokens, procs[p].token) = {})
                   => /\ procs'[p].pc = "done"
                      /\ procs'[p].result = "INVALID_REFRESH_TOKEN"
                      /\ procs'[p].pair = {}
             /\ (/\ procs'[p].pc = "done"
                 /\ procs'[p].op = "refresh"
                 /\ procs'[p].token.sub \in NewUserIds)
                   => /\ procs'[p].result = "INVALID_REFRESH_TOKEN"
                      /\ procs'[p].pair = {}
       /\ \A t \in rotated' :
             /\ t.sub \notin NewUserIds
             /\ RecordsOf(refresh_tokens', t) # {}
      ]_vars

\* a refresh with the unexpired refresh token of a registration has ended
\* with InvalidRefreshToken
C38_Witness ==
    \E p \in Procs :
        /\ Finished(p, "refresh", "INVALID_REFRESH_TOKEN")
        /\ procs[p].token \in issued
        /\ procs[p].token.sub \in NewUserIds
        /\ procs[p].token.type = "refresh"
        /\ procs[p].valid


(***************************************************************************)
(* Access tokens and revocation, checked under SpecRevoked.                *)
(***************************************************************************)
\* every refresh-token record of the user is revoked, and there is one
AllRevoked(user_id) ==
    /\ \E r \in refresh_tokens : r.user_id = user_id
    /\ \A r \in refresh_tokens : r.user_id = user_id => r.revoked

\* C39: validate_access_token accepts every access token that was issued
\* and has not expired when its user is present and active, whatever the
\* refresh-token records say, and writes none of them; a revocation by
\* logout or rotation withdraws no token issued.
C39_AccessSurvivesRevocation ==
    [][/\ \A p \in Procs :
             /\ (/\ procs[p].pc = "idle"
                 /\ procs'[p].op = "access"
                 /\ procs'[p].token \in issued
                 /\ procs'[p].token.type = "access"
                 /\ procs'[p].token.exp > now)
                   => procs'[p].pc = "a_user"
             /\ (/\ procs[p].pc = "a_user"
                 /\ procs'[p].pc # "a_user"
                 /\ PresentAndActive(procs[p].user_id))
                   => /\ procs'[p].pc = "done"
                      /\ procs'[p].result = "OK"
             /\ (procs'[p] # procs[p] /\ procs'[p].op = "access")
                   => refresh_tokens' = refresh_tokens
       /\ issued \subseteq issued'
      ]_vars

\* an access token issued to alice has been accepted while every one of her
\* refresh-token records is revoked, one of them by a logout
C39_Witness ==
    \E p \in Procs :
        /\ Finished(p, "access", "OK")
        /\ procs[p].token \in issued
        /\ AllRevoked(procs[p].user_id)
        /\ loggedOut # {}

=============================================================================
